---- MODULE Spec2Model ----
(***************************************************************************)
(* The analysis engine of the Financial Forensics Engine: graph build,     *)
(* cycle / smurfing / layering detectors, ring deduplication, betweenness  *)
(* centrality and account scoring (analyzeTransactions and its helpers).   *)
(*                                                                         *)
(* A string is the sequence of its characters, each a natural that orders  *)
(* as its code unit does; "->" is the one character ARROW.  An account id  *)
(* is a string; a transaction id is a natural.  Timestamps are in hours    *)
(* (the code's epoch milliseconds divided by 3 600 000).  A Map is a       *)
(* sequence of [k, v] entries in insertion order, as a JavaScript Map      *)
(* iterates.                                                               *)
(*                                                                         *)
(* ringIds holds, for each of two runs of the engine on the same rows, the *)
(* ids that ringId gave to the rings in the order the detectors emitted    *)
(* them.  The revision of src/unnamed/part_000 takes its ids from          *)
(* deterministicRingId, which is not among the sources: its ids are left   *)
(* out and ringIds stays empty there.                                      *)
(*                                                                         *)
(* Two more processes are modelled beside the engine, each in a            *)
(* specification of its own: one run of detect, the sliding-window scan of *)
(* the smurfing detector, statement by statement (scanList, scanMode,      *)
(* scanLeft, scanRight for its list, mode, left and right, freq,           *)
(* cpSmallCount, scanPc), and the Dashboard component with its             *)
(* uploads and the analysis requests in flight (state, selectedRingId,     *)
(* requests, uploads).                                                     *)
(***************************************************************************)
EXTENDS Integers, Sequences, FiniteSets, TLC

VARIABLES rows, pc, outAdj, inAdj, accountStats, edgeAgg,
          cycleRings, smurfRings, layerRings, allRings, centrality,
          accountFlags, smurfRolesByAccount, accountScores, suspicious_accounts, fraud_rings, nodes,
          ringIds,
          scanList, scanMode, scanLeft, scanRight, freq, cpSmallCount, scanPc,
          state, selectedRingId, requests, uploads

vars == <<rows, pc, outAdj, inAdj, accountStats, edgeAgg,
          cycleRings, smurfRings, layerRings, allRings, centrality,
          accountFlags, smurfRolesByAccount, accountScores, suspicious_accounts, fraud_rings, nodes,
          ringIds,
          scanList, scanMode, scanLeft, scanRight, freq, cpSmallCount, scanPc,
          state, selectedRingId, requests, uploads>>

\* the variables of one run of detect over a list, and those of the Dashboard
scanVars == <<scanList, scanMode, scanLeft, scanRight, freq, cpSmallCount, scanPc>>

dashVars == <<state, selectedRingId, requests, uploads>>

(***************************************************************************)
(* Bounds of the checked inputs                                            *)
(***************************************************************************)
\* longest free transaction list over the small account set
MaxTx == 3
\* largest directed ring laid out as input
MaxRing == 6
\* most accounts paying into the hub, and most accounts the hub pays
MaxSenders == 11
MaxReceivers == 5

(***************************************************************************)
(* Sequences and insertion-ordered maps                                    *)
(***************************************************************************)
Range(s) == { s[i] : i \in 1..Len(s) }

Includes(s, x) == \E i \in 1..Len(s) : s[i] = x

Front(s) == SubSeq(s, 1, Len(s) - 1)

Last(s) == s[Len(s)]

Min2(a, b) == IF a < b THEN a ELSE b

Max2(a, b) == IF a > b THEN a ELSE b

\* ss[lo] \o ... \o ss[hi]
RECURSIVE ConcatRange(_, _, _)
ConcatRange(ss, lo, hi) ==
  IF lo > hi THEN <<>>
  ELSE IF lo = hi THEN ss[lo]
  ELSE LET mid == (lo + hi) \div 2 IN ConcatRange(ss, lo, mid) \o ConcatRange(ss, mid + 1, hi)

Concat(ss) == ConcatRange(ss, 1, Len(ss))

\* s[lo] + ... + s[hi]
RECURSIVE SumRange(_, _, _)
SumRange(s, lo, hi) ==
  IF lo > hi THEN 0
  ELSE IF lo = hi THEN s[lo]
  ELSE LET mid == (lo + hi) \div 2 IN SumRange(s, lo, mid) + SumRange(s, mid + 1, hi)

SumSeq(s) == SumRange(s, 1, Len(s))

\* the entries of s at the positions P, in order
Pick(s, P) ==
  [n \in 1..Cardinality(P) |-> s[CHOOSE p \in P : Cardinality({ q \in P : q < p }) = n - 1]]

\* first occurrences in order: the iteration order of a Set or of a Map's keys
Uniq(s) == Pick(s, { i \in 1..Len(s) : \A j \in 1..(i - 1) : s[j] # s[i] })

HasKey(m, k) == \E i \in 1..Len(m) : m[i].k = k

KeyIdx(m, k) == CHOOSE i \in 1..Len(m) : m[i].k = k

Get(m, k) == m[KeyIdx(m, k)].v

GetOr(m, k, d) == IF HasKey(m, k) THEN Get(m, k) ELSE d

Put(m, k, x) ==
  IF HasKey(m, k) THEN [m EXCEPT ![KeyIdx(m, k)].v = x]
  ELSE Append(m, [k |-> k, v |-> x])

Keys(m) == [i \in 1..Len(m) |-> m[i].k]

\* Array.prototype.sort, which is stable: entry i lands after every entry that comes
\* before it in the order and after every earlier entry the order does not separate from it;
\* before is the order, as the set of the pairs <<j, i>> where entry j sorts before entry i
SortBy(s, before) ==
  LET rank(i) == Cardinality({ j \in 1..Len(s) :
                     <<j, i>> \in before \/ (<<i, j>> \notin before /\ j < i) })
  IN  [n \in 1..Len(s) |-> s[CHOOSE i \in 1..Len(s) : rank(i) = n - 1]]

(***************************************************************************)
(* Strings                                                                 *)
(***************************************************************************)
\* the separator "->" of canonicalCycle: '-' sorts below every letter and digit; the
\* characters of the ids used here stand for digits
ARROW == 0
\* the separator "::" of the edge keys: ':' sorts above every digit
COLONS == 99
\* the separator "|" of memberSetKey: it sorts above every letter and digit
BAR == 100

\* the one-character id
Id(c) == <<c>>

\* a < b on strings: by the first character that differs, a proper prefix first
StrLess(a, b) ==
  \E i \in 1..Len(b) :
    /\ \A j \in 1..(i - 1) : j <= Len(a) /\ a[j] = b[j]
    /\ (i > Len(a) \/ a[i] < b[i])

\* Array.prototype.join
RECURSIVE Join(_, _)
Join(ss, sep) ==
  IF ss = <<>> THEN <<>>
  ELSE IF Len(ss) = 1 THEN ss[1]
  ELSE ss[1] \o <<sep>> \o Join(Tail(ss), sep)

\* Array.prototype.sort on strings (default comparator): ascending
SortIds(s) == SortBy(s, { p \in (1..Len(s)) \X (1..Len(s)) : StrLess(s[p[1]], s[p[2]]) })

SumAmount(s) == SumSeq([i \in 1..Len(s) |-> s[i].amount])

(***************************************************************************)
(* Graph build (analyzeTransactions, first part): the maps the loop over   *)
(* the rows leaves behind                                                  *)
(***************************************************************************)
RowsFrom(rs, id) == SelectSeq(rs, LAMBDA tx : tx.sender_id = id)

RowsTo(rs, id) == SelectSeq(rs, LAMBDA tx : tx.receiver_id = id)

\* the accounts with a blank account id always among them
touchBlank(rs) == Uniq(<< <<>> >> \o [i \in 1..(2 * Len(rs)) |->
                     IF i % 2 = 1 THEN rs[(i + 1) \div 2].sender_id ELSE rs[i \div 2].receiver_id])

\* touch(s), touch(r) row by row: accounts in order of first appearance
touch(rs) == Uniq([i \in 1..(2 * Len(rs)) |->
                     IF i % 2 = 1 THEN rs[(i + 1) \div 2].sender_id ELSE rs[i \div 2].receiver_id])

\* the statistics with a payment of an account to itself counted once in totalCount
StatsOfSelfOnce(rs, id) ==
  LET outs == RowsFrom(rs, id)
      ins == RowsTo(rs, id)
      self == SelectSeq(outs, LAMBDA tx : tx.receiver_id = id)
  IN  [inCount |-> Len(ins), outCount |-> Len(outs), totalCount |-> Len(ins) + Len(outs) - Len(self),
       inSum |-> SumAmount(ins), outSum |-> SumAmount(outs)]

StatsOf(rs, id) ==
  LET outs == RowsFrom(rs, id)
      ins == RowsTo(rs, id)
  IN  [inCount |-> Len(ins), outCount |-> Len(outs), totalCount |-> Len(ins) + Len(outs),
       inSum |-> SumAmount(ins), outSum |-> SumAmount(outs)]

AdjTx(tx, peer) == [to |-> peer, txId |-> tx.transaction_id, amount |-> tx.amount, ts |-> tx.timestamp]

\* v.sort((a, b) => a.ts - b.ts): a stable sort on the timestamp alone
SortByTs(s) == SortBy(s, { p \in (1..Len(s)) \X (1..Len(s)) : s[p[1]].ts < s[p[2]].ts })

OutList(rs, id) == LET mine == RowsFrom(rs, id) IN SortByTs([i \in 1..Len(mine) |-> AdjTx(mine[i], mine[i].receiver_id)])

InList(rs, id) == LET mine == RowsTo(rs, id) IN SortByTs([i \in 1..Len(mine) |-> AdjTx(mine[i], mine[i].sender_id)])

\* the key `${s}::${r}` of edgeAgg
EdgeKey(tx) == Join(<<tx.sender_id, tx.receiver_id>>, COLONS)

\* the entry of a key: source and target of the first row with the key, the sums of them all
EdgeOf(rs, key) ==
  LET mine == SelectSeq(rs, LAMBDA tx : EdgeKey(tx) = key)
  IN  [source |-> mine[1].sender_id, target |-> mine[1].receiver_id,
       amount |-> SumAmount(mine), count |-> Len(mine)]

BuildGraph(rs) ==
  LET accounts == touch(rs)
      senders == Uniq([i \in 1..Len(rs) |-> rs[i].sender_id])
      receivers == Uniq([i \in 1..Len(rs) |-> rs[i].receiver_id])
      pairs == Uniq([i \in 1..Len(rs) |-> EdgeKey(rs[i])])
  IN  [stats |-> [i \in 1..Len(accounts) |-> [k |-> accounts[i], v |-> StatsOf(rs, accounts[i])]],
       out   |-> [i \in 1..Len(senders) |-> [k |-> senders[i], v |-> OutList(rs, senders[i])]],
       in    |-> [i \in 1..Len(receivers) |-> [k |-> receivers[i], v |-> InList(rs, receivers[i])]],
       edges |-> [i \in 1..Len(pairs) |-> [k |-> pairs[i], v |-> EdgeOf(rs, pairs[i])]]]

(***************************************************************************)
(* Rings                                                                   *)
(***************************************************************************)
Ring(p, mem, risk, txs, h, st, en, snd, rcv) ==
  [pattern_type |-> p, members |-> mem, member_count |-> Len(mem), risk_score |-> risk,
   transaction_ids |-> txs, hops |-> h, start_timestamp |-> st, end_timestamp |-> en,
   senders |-> snd, receivers |-> rcv]

\* a key that joins the members in ring order, without sorting them
memberSetKeyUnsorted(members) == Join(members, BAR)

memberSetKey(members) == Join(SortIds(members), BAR)

patternPriority(p) ==
  IF p = "circular_routing" THEN 4
  ELSE IF p = "smurfing" \/ p = "dispersal" THEN 3
  ELSE IF p = "layered_shell" THEN 2
  ELSE 1

(***************************************************************************)
(* Cycle detector                                                          *)
(***************************************************************************)
\* position of the first smallest id (1-based)
RECURSIVE MinIdx(_, _, _)
MinIdx(u, i, best) ==
  IF i > Len(u) THEN best
  ELSE MinIdx(u, i + 1, IF StrLess(u[i], u[best]) THEN i ELSE best)

\* an identity that joins the walk as found, without rotating it
canonicalCycleAsFound(cyc) == IF cyc = <<>> THEN <<>> ELSE Join(Front(cyc), ARROW)

canonicalCycle(cyc) ==
  IF cyc = <<>> THEN <<>>
  ELSE LET unique == Front(cyc)
           m == IF unique = <<>> THEN 1 ELSE MinIdx(unique, 2, 1)
       IN  Join(SubSeq(unique, m, Len(unique)) \o SubSeq(unique, 1, m - 1), ARROW)

\* a closing test that also accepts a walk of two edges
ClosesCycleFromTwo(next, start, depth) == next = start /\ depth >= 2 /\ depth <= 5

ClosesCycle(next, start, depth) == next = start /\ depth >= 3 /\ depth <= 5

CycleRing(cycleNodes, txs) ==
  Ring("circular_routing", Front(cycleNodes), 70 + (Len(cycleNodes) - 1) * 5,
       txs, Len(cycleNodes) - 1, -1, -1, <<>>, <<>>)

\* the closed walks the DFS from `start` reaches, in discovery order
RECURSIVE CycleDfs(_, _, _, _, _), CycleEdges(_, _, _, _, _, _)
CycleDfs(adj, start, path, txPath, depth) ==
  IF depth > 5 THEN <<>>
  ELSE IF ~HasKey(adj, Last(path)) THEN <<>>
  ELSE CycleEdges(adj, start, path, txPath, depth, 1)
CycleEdges(adj, start, path, txPath, depth, i) ==
  LET outs == Get(adj, Last(path))
  IN  IF i > Len(outs) THEN <<>>
      ELSE LET e == outs[i]
               here == IF ClosesCycle(e.to, start, depth)
                         THEN << [cycleNodes |-> Append(path, start), txs |-> Append(txPath, e.txId)] >>
                       ELSE IF Includes(path, e.to) THEN <<>>
                       ELSE IF depth = 5 THEN <<>>
                       ELSE CycleDfs(adj, start, Append(path, e.to), Append(txPath, e.txId), depth + 1)
           IN  here \o CycleEdges(adj, start, path, txPath, depth, i + 1)

\* the `seen` filter: the first closed walk of every signature becomes a ring
RECURSIVE EmitCycles(_, _)
EmitCycles(found, seen) ==
  IF found = <<>> THEN <<>>
  ELSE LET f == Head(found)
           sig == canonicalCycle(f.cycleNodes)
       IN  IF sig # <<>> /\ sig \notin seen
             THEN <<CycleRing(f.cycleNodes, f.txs)>> \o EmitCycles(Tail(found), seen \cup {sig})
           ELSE EmitCycles(Tail(found), seen)

detectCycles(adj) ==
  EmitCycles(Concat([i \in 1..Len(adj) |-> CycleDfs(adj, adj[i].k, <<adj[i].k>>, <<>>, 1)]), {})

(***************************************************************************)
(* Ring deduplicator                                                       *)
(***************************************************************************)
Replaces(r, prev) ==
  LET pa == patternPriority(prev.pattern_type)
      pb == patternPriority(r.pattern_type)
  IN  pb > pa \/ (pb = pa /\ r.risk_score > prev.risk_score)

RECURSIVE DedupeFold(_, _)
DedupeFold(best, rings) ==
  IF rings = <<>> THEN best
  ELSE LET r == Head(rings)
           key == memberSetKey(r.members)
       IN  IF ~HasKey(best, key) THEN DedupeFold(Append(best, [k |-> key, v |-> r]), Tail(rings))
           ELSE IF Replaces(r, Get(best, key)) THEN DedupeFold(Put(best, key, r), Tail(rings))
           ELSE DedupeFold(best, Tail(rings))

dedupeRings(rings) == LET best == DedupeFold(<<>>, rings) IN [i \in 1..Len(best) |-> best[i].v]

(***************************************************************************)
(* Smurfing detector (hub with a fan-in window and fan-out in that window) *)
(***************************************************************************)
WINDOW_H == 72
IN_UNIQUE_MIN == 10
OUT_UNIQUE_MIN == 5
LAG_H == 24
VELOCITY_HOURS == 6

\* the ids of a set in ascending order (Array.from(set).sort())
SortedOf(S) == [n \in 1..Cardinality(S) |-> CHOOSE x \in S : Cardinality({ y \in S : StrLess(y, x) }) = n - 1]

\* the entries with lo <= ts <= hi
Filter(s, lo, hi) == SelectSeq(s, LAMBDA t : t.ts >= lo /\ t.ts <= hi)

TxIdsOf(s) == [i \in 1..Len(s) |-> s[i].txId]

VelocityBoost(incomingSum, outFast) == IF incomingSum > 0 /\ 10 * outFast >= 9 * incomingSum THEN 15 ELSE 0

SmurfRing(account, senders, receivers, win, outsInWindow, outs, startTs, endTs) ==
  LET outEnd == Last(outsInWindow).ts
      outFast == SumAmount(Filter(outs, outEnd, outEnd + VELOCITY_HOURS))
  IN  Ring("smurfing", <<account>> \o senders \o receivers,
           70 + Min2(20, Len(senders)) + Min2(10, Len(receivers)) + VelocityBoost(SumAmount(win), outFast),
           Uniq(TxIdsOf(win) \o TxIdsOf(outsInWindow)), -1, startTs, endTs, senders, receivers)

\* iR - 1 once the inner `while (iR < ins.length && ins[iR].ts <= endTs)` has run for iL
\* (1-based): ins is sorted by ts and endTs never decreases, so iR stops behind the last
\* entry with ts <= endTs
LastInWindow(ins, endTs) ==
  CHOOSE j \in 1..Len(ins) : ins[j].ts <= endTs /\ \A k \in (j + 1)..Len(ins) : ins[k].ts > endTs

\* one pass of the `while (iL < ins.length)` loop: sendersFreq then counts ins[iL..iR-1],
\* the entries before iL having been retracted
SmurfWindow(account, ins, outs, iL) ==
  LET startTs == ins[iL].ts
      endTs == startTs + WINDOW_H
      win == SubSeq(ins, iL, LastInWindow(ins, endTs))
      uniqueSenders == { win[i].to : i \in 1..Len(win) }
      outsInWindow == Filter(outs, startTs, endTs)
      receiverSet == { outsInWindow[i].to : i \in 1..Len(outsInWindow) }
      emit == /\ Cardinality(uniqueSenders) >= IN_UNIQUE_MIN
              /\ Cardinality(receiverSet) >= OUT_UNIQUE_MIN
              /\ outsInWindow # <<>>
              /\ outsInWindow[1].ts - startTs <= LAG_H
  IN  IF emit
        THEN <<SmurfRing(account, SortedOf(uniqueSenders), SortedOf(receiverSet),
                         win, outsInWindow, outs, startTs, endTs)>>
      ELSE <<>>

SmurfAccount(adjOut, adjIn, account) ==
  LET ins == GetOr(adjIn, account, <<>>)
      outs == GetOr(adjOut, account, <<>>)
  IN  IF Len(ins) < IN_UNIQUE_MIN \/ Len(outs) < OUT_UNIQUE_MIN THEN <<>>
      ELSE Concat([iL \in 1..Len(ins) |-> SmurfWindow(account, ins, outs, iL)])

detectSmurfing(adjOut, adjIn) ==
  LET accounts == Uniq(Keys(adjOut) \o Keys(adjIn))
  IN  Concat([i \in 1..Len(accounts) |-> SmurfAccount(adjOut, adjIn, accounts[i])])

(***************************************************************************)
(* Layering detector                                                       *)
(***************************************************************************)
MAX_DEPTH == 6
MAX_GAP_H == 72

\* lastTs is <<>> for Number.NEGATIVE_INFINITY and <<t>> for the timestamp t
NEGATIVE_INFINITY == <<>>

\* e.ts < lastTs
TsBefore(ts, lastTs) == lastTs # NEGATIVE_INFINITY /\ ts < lastTs[1]

\* e.ts - lastTs > MAX_GAP_MS: the difference from -Infinity is +Infinity
GapTooLong(ts, lastTs) == IF lastTs = NEGATIVE_INFINITY THEN TRUE ELSE ts - lastTs[1] > MAX_GAP_H

LowActivity(stats) == { stats[i].k : i \in { j \in 1..Len(stats) : stats[j].v.inCount + stats[j].v.outCount <= 2 } }

LayerRing(path, txIds) ==
  Ring("layered_shell", path, 65 + Min2(25, (Len(path) - 2) * 5), txIds, Len(path) - 1, -1, -1, <<>>, <<>>)

\* the chains the DFS from `start` reaches that pass the emission test, in discovery order
RECURSIVE LayerDfs(_, _, _, _, _, _, _), LayerEdges(_, _, _, _, _, _, _, _)
LayerDfs(adj, low, start, path, txIds, depth, lastTs) ==
  IF depth > MAX_DEPTH THEN <<>>
  ELSE IF ~HasKey(adj, Last(path)) THEN <<>>
  ELSE LayerEdges(adj, low, start, path, txIds, depth, lastTs, 1)
LayerEdges(adj, low, start, path, txIds, depth, lastTs, i) ==
  LET current == Last(path)
      outs == Get(adj, current)
  IN  IF i > Len(outs) THEN <<>>
      ELSE LET e == outs[i]
               skip == \/ (depth >= 1 /\ current \notin low /\ current # start)
                       \/ Includes(path, e.to)
                       \/ TsBefore(e.ts, lastTs)
                       \/ GapTooLong(e.ts, lastTs)
               path2 == Append(path, e.to)
               tx2 == Append(txIds, e.txId)
               inter == SubSeq(path2, 2, Len(path2) - 1)
               ok == Len(path2) - 1 >= 3 /\ Len(inter) >= 2 /\ \A j \in 1..Len(inter) : inter[j] \in low
               here == IF skip THEN <<>>
                       ELSE (IF ok THEN << [path |-> path2, txIds |-> tx2] >> ELSE <<>>)
                            \o LayerDfs(adj, low, start, path2, tx2, depth + 1, <<e.ts>>)
           IN  here \o LayerEdges(adj, low, start, path, txIds, depth, lastTs, i + 1)

RECURSIVE EmitLayers(_, _)
EmitLayers(found, seen) ==
  IF found = <<>> THEN <<>>
  ELSE LET f == Head(found)
           sig == memberSetKey(f.path)
       IN  IF sig \notin seen
             THEN <<LayerRing(f.path, f.txIds)>> \o EmitLayers(Tail(found), seen \cup {sig})
           ELSE EmitLayers(Tail(found), seen)

detectLayering(adj, stats) ==
  LET low == LowActivity(stats)
  IN  EmitLayers(Concat([i \in 1..Len(adj) |->
                   LayerDfs(adj, low, adj[i].k, <<adj[i].k>>, <<>>, 1, NEGATIVE_INFINITY)]), {})

(***************************************************************************)
(* Betweenness centrality (Brandes).  Values are exact rationals [n, d];   *)
(* the code's doubles agree with them up to rounding error.                *)
(***************************************************************************)
MAX_NODES == 2000

RECURSIVE Gcd(_, _)
Gcd(a, b) == IF b = 0 THEN a ELSE Gcd(b, a % b)

Rat(n, d) == LET g == Gcd(n, d) IN IF n = 0 THEN [n |-> 0, d |-> 1] ELSE [n |-> n \div g, d |-> d \div g]

RAdd(a, b) == Rat(a.n * b.d + b.n * a.d, a.d * b.d)

RMul(a, b) == Rat(a.n * b.n, a.d * b.d)

RDiv(a, b) == Rat(a.n * b.d, a.d * b.n)

RLess(a, b) == a.n * b.d < b.n * a.d

RZero == Rat(0, 1)

ROne == Rat(1, 1)

\* Math.round of a non-negative rational: halves round up
RoundRat(a) == (2 * a.n + a.d) \div (2 * a.d)

\* `nodes`: every sender and every receiver, in the order the Set meets them
GraphNodes(adj) ==
  Uniq(Concat([i \in 1..Len(adj) |-> <<adj[i].k>> \o [j \in 1..Len(adj[i].v) |-> adj[i].v[j].to]]))

\* `adj`: the successors of v with multi-edges collapsed
Succ(adj, v) == IF HasKey(adj, v) THEN { Get(adj, v)[j].to : j \in 1..Len(Get(adj, v)) } ELSE {}

\* the breadth-first search from a source: the nodes first met at distance 0, 1, 2, ...
RECURSIVE BfsLevels(_, _, _)
BfsLevels(adj, met, frontier) ==
  IF frontier = {} THEN <<>>
  ELSE LET next == (UNION { Succ(adj, v) : v \in frontier }) \ (met \cup frontier)
       IN  <<frontier>> \o BfsLevels(adj, met \cup frontier, next)

\* dist.get(w) after the search (-1: not reached)
Dist(levels, w) ==
  IF \E k \in 1..Len(levels) : w \in levels[k]
    THEN (CHOOSE k \in 1..Len(levels) : w \in levels[k]) - 1
  ELSE -1

\* P.get(w): the predecessors of w on shortest paths from the source
Pred(adj, levels, w) ==
  LET d == Dist(levels, w)
  IN  IF d <= 0 THEN {} ELSE { v \in levels[d] : w \in Succ(adj, v) }

\* the least common multiple of s[lo].d, ..., s[hi].d
RECURSIVE LcmRange(_, _, _)
LcmRange(s, lo, hi) ==
  IF lo > hi THEN 1
  ELSE IF lo = hi THEN s[lo].d
  ELSE LET mid == (lo + hi) \div 2
           a == LcmRange(s, lo, mid)
           b == LcmRange(s, mid + 1, hi)
       IN  (a \div Gcd(a, b)) * b

\* the sum of a sequence of rationals, over their common denominator
SumRatSeq(s) ==
  LET d == LcmRange(s, 1, Len(s))
  IN  Rat(SumSeq([i \in 1..Len(s) |-> s[i].n * (d \div s[i].d)]), d)

\* sigma.get(w) after the search: the number of shortest paths from the source to w
RECURSIVE Sigma(_, _, _)
Sigma(adj, levels, w) ==
  IF Dist(levels, w) = 0 THEN 1
  ELSE LET ps == SortedOf(Pred(adj, levels, w))
       IN  SumSeq([i \in 1..Len(ps) |-> Sigma(adj, levels, ps[i])])

\* delta.get(v) once the stack S is unwound down to v: the sum over the nodes w with v in P[w]
RECURSIVE Delta(_, _, _)
Delta(adj, levels, v) ==
  LET d == Dist(levels, v)
      ws == IF d < 0 \/ d + 2 > Len(levels) THEN <<>>
            ELSE SortedOf({ w \in levels[d + 2] : w \in Succ(adj, v) })
  IN  SumRatSeq([i \in 1..Len(ws) |->
         RMul(Rat(Sigma(adj, levels, v), Sigma(adj, levels, ws[i])),
              RAdd(ROne, Delta(adj, levels, ws[i])))])

\* bc.get(w) before normalisation: the dependencies of every other source on w
Betweenness(adj, order, w) ==
  SumRatSeq([i \in 1..Len(order) |->
     IF order[i] = w THEN RZero ELSE Delta(adj, BfsLevels(adj, {}, {order[i]}), w)])

\* the same without the division by the largest value
computeBetweennessRaw(adj, nNodes) ==
  IF nNodes = 0 THEN <<>>
  ELSE IF nNodes > MAX_NODES THEN [i \in 1..Len(adj) |-> [k |-> adj[i].k, v |-> RZero]]
  ELSE LET order == GraphNodes(adj)
       IN  [i \in 1..Len(order) |-> [k |-> order[i], v |-> Betweenness(adj, order, order[i])]]

computeBetweennessCentrality(adj, nNodes) ==
  IF nNodes = 0 THEN <<>>
  ELSE IF nNodes > MAX_NODES THEN [i \in 1..Len(adj) |-> [k |-> adj[i].k, v |-> RZero]]
  ELSE LET order == GraphNodes(adj)
           bc == [i \in 1..Len(order) |-> Betweenness(adj, order, order[i])]
           max == CHOOSE m \in Range(bc) : \A x \in Range(bc) : ~RLess(m, x)
       IN  [i \in 1..Len(order) |->
              [k |-> order[i], v |-> IF RLess(RZero, max) THEN RDiv(bc[i], max) ELSE bc[i]]]

(***************************************************************************)
(* Flags, smurfing roles, scores and the report (analyzeTransactions)      *)
(***************************************************************************)
NoFlags == [cycle |-> FALSE, smurfing |-> FALSE, layering |-> FALSE]

\* membership of any ring, whatever its pattern
InRingOfAnyPattern(rings, id, patterns) ==
  \E i \in 1..Len(rings) : Includes(rings[i].members, id)

InRingOf(rings, id, patterns) ==
  \E i \in 1..Len(rings) : rings[i].pattern_type \in patterns /\ Includes(rings[i].members, id)

\* every account of accountStats, then any ring member not among them, with the flags the rings set
AccountFlags(stats, rings) ==
  LET ids == Uniq(Keys(stats) \o Concat([i \in 1..Len(rings) |-> rings[i].members]))
  IN  [i \in 1..Len(ids) |->
         [k |-> ids[i],
          v |-> [cycle    |-> InRingOf(rings, ids[i], {"circular_routing"}),
                 smurfing |-> InRingOf(rings, ids[i], {"smurfing", "dispersal"}),
                 layering |-> InRingOf(rings, ids[i], {"layered_shell"})]]]

\* the aggregator looked up at the end of the member list
AggregatorLast(r) == r.members[Len(r.members)]

\* `agg` of a ring: its first member
Aggregator(r) == r.members[1]

\* the roles the smurfing rings give the account
SmurfRoles(rings, id) ==
  LET sm == { i \in 1..Len(rings) : rings[i].pattern_type = "smurfing" }
  IN  (IF \E i \in sm : rings[i].members # <<>> /\ Aggregator(rings[i]) = id THEN {"aggregator"} ELSE {})
      \cup (IF \E i \in sm : Includes(rings[i].senders, id) THEN {"sender"} ELSE {})
      \cup (IF \E i \in sm : Includes(rings[i].receivers, id) THEN {"receiver"} ELSE {})

\* smurfRolesByAccount: an entry for every account a smurfing ring gives a role, in the order met
SmurfRolesByAccount(rings) ==
  LET sm == SelectSeq(rings, LAMBDA r : r.pattern_type = "smurfing")
      ids == Uniq(Concat([i \in 1..Len(sm) |->
                 (IF sm[i].members # <<>> THEN <<Aggregator(sm[i])>> ELSE <<>>)
                 \o sm[i].senders \o sm[i].receivers]))
  IN  [i \in 1..Len(ids) |-> [k |-> ids[i], v |-> SmurfRoles(rings, ids[i])]]

RoleBonus(roles, f) ==
  IF "aggregator" \in roles THEN 50
  ELSE IF "sender" \in roles THEN 25
  ELSE IF "receiver" \in roles THEN 10
  ELSE IF f.smurfing THEN 25
  ELSE 0

\* the two degree branches exchanged
CentralityBonusSwapped(c, deg) ==
  IF deg <= 6 THEN Min2(10, RoundRat(RMul(c, Rat(10, 1))))
  ELSE Min2(20, RoundRat(RMul(c, Rat(20, 1))))

CentralityBonus(c, deg) ==
  IF deg <= 6 THEN Min2(20, RoundRat(RMul(c, Rat(20, 1))))
  ELSE Min2(10, RoundRat(RMul(c, Rat(10, 1))))

\* the score left as the sum, not clamped
AccountScoreUnclamped(f, roles, c, deg) ==
  (IF f.cycle THEN 45 ELSE 0) + (IF f.layering THEN 40 ELSE 0)
  + RoleBonus(roles, f) + CentralityBonus(c, deg)

AccountScore(f, roles, c, deg) ==
  LET s == (IF f.cycle THEN 45 ELSE 0) + (IF f.layering THEN 40 ELSE 0)
           + RoleBonus(roles, f) + CentralityBonus(c, deg)
  IN  Max2(0, Min2(100, s))

AccountScores(flags, roles, cent, stats) ==
  [i \in 1..Len(flags) |->
     LET id == flags[i].k
         deg == IF HasKey(stats, id) THEN Get(stats, id).inCount + Get(stats, id).outCount ELSE 0
     IN  [k |-> id, v |-> AccountScore(flags[i].v, GetOr(roles, id, {}), GetOr(cent, id, RZero), deg)]]

SuspiciousAccounts(scores, flags) ==
  LET pos == SelectSeq(scores, LAMBDA e : e.v > 0)
      acc == [i \in 1..Len(pos) |->
                [account_id |-> pos[i].k, suspicion_score |-> pos[i].v, flags |-> Get(flags, pos[i].k)]]
  IN  SortBy(acc, { p \in (1..Len(acc)) \X (1..Len(acc)) :
                     acc[p[1]].suspicion_score > acc[p[2]].suspicion_score })

FraudRings(rings) ==
  SortBy(rings, { p \in (1..Len(rings)) \X (1..Len(rings)) : rings[p[1]].risk_score > rings[p[2]].risk_score })

GraphNodeList(stats, scores, cent, flags) ==
  [i \in 1..Len(stats) |->
     [id |-> stats[i].k, score |-> GetOr(scores, stats[i].k, 0),
      centrality |-> GetOr(cent, stats[i].k, RZero), flags |-> GetOr(flags, stats[i].k, NoFlags)]]

(***************************************************************************)
(* The engine of src/src/lib/analyze.ts, where it differs: the smurfing    *)
(* detector scans one list per direction, low activity is a total count of *)
(* 2 or 3, and the score is a sum of flag weights                          *)
(***************************************************************************)
THRESH == 10
SMALL_TX_THRESHOLD == 1000
\* SMALL_TX_RATIO = 0.7, in hundredths
SMALL_TX_RATIO == 70

\* `left` (1-based) once the `while (list[right].ts - list[left].ts > WINDOW_MS)` loop has run
\* for `right`: the list is sorted by ts, so it stops at the first entry within the window
LeftOf(list, right) ==
  CHOOSE l \in 1..right :
    /\ list[right].ts - list[l].ts <= WINDOW_H
    /\ \A j \in 1..(l - 1) : list[right].ts - list[j].ts > WINDOW_H

\* freq has the counterparty as a key after the step for `right`
InFreq(list, cp, right) == \E i \in LeftOf(list, right)..right : list[i].to = cp

\* the step at which the key cp of freq was set and not deleted since
KeySince(list, cp, right) ==
  CHOOSE r0 \in 1..right :
    /\ list[r0].to = cp
    /\ \A r \in r0..right : InFreq(list, cp, r)
    /\ \A r1 \in 1..(r0 - 1) : ~(list[r1].to = cp /\ \A r \in r1..right : InFreq(list, cp, r))

\* Array.from(freq.keys()) after the step for `right`: the keys in the order they were set
FreqKeys(list, right) ==
  LET cps == { list[i].to : i \in LeftOf(list, right)..right }
      since == { KeySince(list, cp, right) : cp \in cps }
  IN  [n \in 1..Cardinality(since) |->
         list[CHOOSE k \in since : Cardinality({ j \in since : j < k }) = n - 1].to]

\* cpSmallCount has the counterparty as a key after the step for `right`
HasSmall(list, cp, right) ==
  \E i \in LeftOf(list, right)..right : list[i].to = cp /\ list[i].amount <= SMALL_TX_THRESHOLD

\* the window of step `right` passes `freq.size >= THRESH` and, for fan-in, the ratio gate
Qualifies(list, right, mode) ==
  LET keys == FreqKeys(list, right)
      smallCps == Cardinality({ i \in 1..Len(keys) : HasSmall(list, keys[i], right) })
  IN  /\ Len(keys) >= THRESH
      /\ mode = "fan_in" => ~(100 * smallCps < SMALL_TX_RATIO * Len(keys))

\* the ring pushed for the window of step `right`
DetectRing(adjOut, account, list, right, mode) ==
  LET counterparties == FreqKeys(list, right)
      windowTx == SubSeq(list, LeftOf(list, right), right)
      endTs == Last(windowTx).ts
      incomingSum == SumAmount(windowTx)
      outSum == SumAmount(Filter(GetOr(adjOut, account, <<>>), endTs, endTs + VELOCITY_HOURS))
      velocityBoost == IF mode = "fan_in" THEN VelocityBoost(incomingSum, outSum) ELSE 0
  IN  Ring(IF mode = "fan_out" THEN "dispersal" ELSE "smurfing",
           IF mode = "fan_out" THEN <<account>> \o counterparties ELSE Append(counterparties, account),
           60 + Min2(20, Len(counterparties)) + velocityBoost,
           TxIdsOf(windowTx), -1, windowTx[1].ts, endTs, <<>>, <<>>)

\* detect(account, list, mode): the ring of the first step that qualifies, if any
detect(adjOut, account, list, mode) ==
  LET hits == { right \in 1..Len(list) : Qualifies(list, right, mode) }
  IN  IF hits = {} THEN <<>>
      ELSE <<DetectRing(adjOut, account, list, CHOOSE r \in hits : \A q \in hits : r <= q, mode)>>

detectSmurfingV1(adjOut, adjIn) ==
  Concat([i \in 1..Len(adjOut) |->
            IF Len(adjOut[i].v) >= THRESH THEN detect(adjOut, adjOut[i].k, adjOut[i].v, "fan_out") ELSE <<>>])
  \o Concat([i \in 1..Len(adjIn) |->
               IF Len(adjIn[i].v) >= THRESH THEN detect(adjOut, adjIn[i].k, adjIn[i].v, "fan_in") ELSE <<>>])

LowActivityV1(stats) == { stats[i].k : i \in { j \in 1..Len(stats) : stats[j].v.totalCount \in {2, 3} } }

detectLayeringV1(adj, stats) ==
  LET low == LowActivityV1(stats)
  IN  EmitLayers(Concat([i \in 1..Len(adj) |->
                   LayerDfs(adj, low, adj[i].k, <<adj[i].k>>, <<>>, 1, NEGATIVE_INFINITY)]), {})

\* the score of an account: the weights of its flags, summed
AccountScoreV1(f) ==
  (IF f.cycle THEN 45 ELSE 0) + (IF f.smurfing THEN 35 ELSE 0) + (IF f.layering THEN 40 ELSE 0)

AccountScoresV1(flags) == [i \in 1..Len(flags) |-> [k |-> flags[i].k, v |-> AccountScoreV1(flags[i].v)]]

GraphNodeListV1(stats, scores, flags) ==
  [i \in 1..Len(stats) |->
     [id |-> stats[i].k, score |-> GetOr(scores, stats[i].k, 0), flags |-> GetOr(flags, stats[i].k, NoFlags)]]

(***************************************************************************)
(* Inputs: the transaction lists analyzeTransactions is run on             *)
(***************************************************************************)
Tx(id, s, r, amt, ts) ==
  [transaction_id |-> id, sender_id |-> s, receiver_id |-> r, amount |-> amt, timestamp |-> ts]

\* row i of a list carries transaction id i
Number(txs) == [i \in 1..Len(txs) |-> [txs[i] EXCEPT !.transaction_id = i]]

Reverse(s) == [i \in 1..Len(s) |-> s[Len(s) + 1 - i]]

\* every list of at most MaxTx transactions among three accounts at two timestamps
FreeTx == { Tx(0, Id(s), Id(r), 1, t) : s \in 1..3, r \in 1..3, t \in 1..2 }

FreeInputs == UNION { [1..n -> FreeTx] : n \in 0..MaxTx }

\* the timestamp of edge i of a ring of n edges: all equal (pat = 0), rising around the ring
\* from edge pat (pat in 1..n), or falling all the way round (pat = n + 1)
RingTs(n, pat, i) ==
  IF pat = 0 THEN 1
  ELSE IF pat = n + 1 THEN n + 1 - i
  ELSE ((i - pat + n) % n) + 1

\* what the list holds beside the ring lab[1] -> lab[2] -> ... -> lab[n] -> lab[1]
RingExtra(n, lab, extra) ==
  IF extra = 1 THEN <<Tx(0, Id(lab[1]), Id(lab[3]), 1, 1)>>          \* a chord
  ELSE IF extra = 2 THEN <<Tx(0, Id(lab[1]), Id(lab[2]), 1, n + 2)>> \* a second transaction on an edge
  ELSE IF extra = 3 THEN <<Tx(0, Id(lab[2]), Id(lab[2]), 1, 1)>>     \* a self-loop
  ELSE IF extra = 4 THEN <<Tx(0, Id(lab[2]), Id(lab[1]), 1, 1)>>     \* a 2-cycle
  ELSE IF extra = 5 THEN <<Tx(0, Id(lab[n]), Id(9), 1, 1)>>          \* a way out of the ring
  ELSE IF extra = 6 THEN [i \in 1..n |-> Tx(0, Id(lab[(i % n) + 1]), Id(lab[i]), 1, 1)] \* the ring backwards
  ELSE IF extra = 7 THEN <<Tx(0, Id(lab[3]), Id(lab[3]), 1, 2), Tx(0, Id(lab[3]), Id(lab[2]), 1, 3)>> \* both
  ELSE <<>>

RingRows(n, lab, pat, extra) ==
  [i \in 1..n |-> Tx(0, Id(lab[i]), Id(lab[(i % n) + 1]), 1, RingTs(n, pat, i))] \o RingExtra(n, lab, extra)

\* rings of 3 to MaxRing accounts, numbered up or down the ring, listed forwards or backwards
RingsOf(n) ==
  UNION { { RingRows(n, lab, pat, extra), Reverse(RingRows(n, lab, pat, extra)) } :
            lab \in { [i \in 1..n |-> i], [i \in 1..n |-> n + 1 - i] }, pat \in 0..(n + 1), extra \in 0..7 }

RingInputs == UNION { RingsOf(n) : n \in 3..MaxRing }

\* a 3-ring x -> C -> D -> x and a 4-ring A -> B -> C -> D -> A over the edge C -> D, where x
\* is "A->B", "A|B" or a plain id, either ring listed first
SeparatorIds == { <<1, ARROW, 2>>, <<1, BAR, 2>>, Id(5) }

SeparatorRows(x, t) ==
  <<<<Tx(0, x, Id(3), 1, 1), Tx(0, Id(3), Id(4), 1, 1 + t), Tx(0, Id(4), x, 1, 1 + 2 * t)>>,
    <<Tx(0, Id(1), Id(2), 1, 1), Tx(0, Id(2), Id(3), 1, 1), Tx(0, Id(4), Id(1), 1, 1 + 3 * t)>>>>

\* "A::B" pays C and A pays "B::C", with or without a second payment from A to "B::C"
ColonRows(again) ==
  <<Tx(0, <<1, COLONS, 2>>, Id(3), 1, 1), Tx(0, Id(1), <<2, COLONS, 3>>, 2, 1)>>
  \o (IF again = 1 THEN <<Tx(0, Id(1), <<2, COLONS, 3>>, 3, 2)>> ELSE <<>>)

SeparatorInputs ==
  UNION { { SeparatorRows(x, t)[1] \o SeparatorRows(x, t)[2],
            SeparatorRows(x, t)[2] \o SeparatorRows(x, t)[1] } : x \in SeparatorIds, t \in 0..1 }
  \cup UNION { { ColonRows(again), Reverse(ColonRows(again)) } : again \in 0..1 }

\* a hub that k accounts pay, `step` hours apart, and that pays m accounts at hour outTs;
\* the payments to the hub are of 1, or all large (extra = 5)
Hub == Id(20)

HubExtra(outTs, extra) ==
  IF extra = 1 THEN <<Tx(0, Id(31), Id(1), 1, outTs + 1)>>     \* a receiver pays a sender: a 3-ring
  ELSE IF extra = 2 THEN <<Tx(0, Hub, Id(1), 1, outTs)>>       \* a sender is paid by the hub too
  ELSE IF extra = 3 THEN <<Tx(0, Id(1), Hub, 1, 1)>>           \* a sender pays twice
  ELSE IF extra = 4 THEN <<Tx(0, Id(31), Id(1), 1, outTs + 1),  \* a 3-ring through the hub, a 3-ring
                           Tx(0, Id(41), Id(42), 1, 1),         \* away from it, and two bystanders
                           Tx(0, Id(42), Id(43), 1, 1),
                           Tx(0, Id(43), Id(41), 1, 1),
                           Tx(0, Id(50), Id(51), 1, 1)>>
  ELSE <<>>

HubRows(k, m, step, outTs, outAmt, extra) ==
  [i \in 1..k |-> Tx(0, Id(i), Hub, IF extra = 5 THEN 2 * SMALL_TX_THRESHOLD ELSE 1, (i - 1) * step)]
  \o [j \in 1..m |-> Tx(0, Hub, Id(30 + j), outAmt, outTs)]
  \o HubExtra(outTs, extra)

HubInputs ==
  { HubRows(k, m, step, outTs, outAmt, extra) :
      k \in (MaxSenders - 2)..MaxSenders, m \in (MaxReceivers - 1)..MaxReceivers,
      step \in {0, 8}, outTs \in {5, 30, 100}, outAmt \in {1, 3}, extra \in 0..5 }

\* what the list holds beside the star of n payments
StarExtra(n, step, extra) ==
  IF extra = 1 THEN <<Tx(0, Hub, Hub, 1, 0)>>                        \* the hub pays itself
  ELSE IF extra = 2 THEN <<Tx(0, Id(1), Hub, 1, n * step),           \* the first peer again, at the
                           Tx(0, Hub, Id(1), 1, n * step)>>          \* end, both ways
  ELSE IF extra = 3 THEN <<Tx(0, Hub, Id(40), 9 * n, (n - 1) * step + VELOCITY_HOURS)>> \* paid on at once
  ELSE IF extra = 4 THEN <<Tx(0, Hub, Id(40), 9 * n, (n - 1) * step + VELOCITY_HOURS + 1)>> \* too late
  ELSE IF extra = 5 THEN <<Tx(0, Id(40), Hub, SMALL_TX_THRESHOLD + 1, 0)>> \* one more large payer
  ELSE <<>>

\* a star around the hub: peer i pays it (dir "in") or is paid by it (dir "out") at hour
\* (i - 1) * step, the first `big` payments above the small-transfer threshold, the others
\* at most 10 each
StarRows(n, step, big, extra, dir) ==
  [i \in 1..n |->
     LET amt == IF i <= big THEN 2 * SMALL_TX_THRESHOLD ELSE 10 - (i % 2)
     IN  IF dir = "in" THEN Tx(0, Id(i), Hub, amt, (i - 1) * step)
         ELSE Tx(0, Hub, Id(i), amt, (i - 1) * step)]
  \o StarExtra(n, step, extra)

StarInputs ==
  { StarRows(n, step, big, extra, dir) :
      n \in (MaxSenders - 2)..MaxSenders, step \in {0, 8, 9}, big \in {0, 3, 4},
      extra \in 0..5, dir \in {"in", "out"} }

\* a chain 1 -> 2 -> ... -> n, each transfer `gap` hours after the one before, alone or with
\* one more payer into account 3, listed forwards or backwards
ChainRows(n, gap, extra) ==
  [i \in 1..(n - 1) |-> Tx(0, Id(i), Id(i + 1), 1, 1 + (i - 1) * gap)]
  \o (IF extra = 1 THEN <<Tx(0, Id(9), Id(3), 1, 1)>> ELSE <<>>)

ChainInputs ==
  UNION { { ChainRows(n, gap, extra), Reverse(ChainRows(n, gap, extra)) } :
            n \in 4..(MaxRing + 1), gap \in {0, 1, MAX_GAP_H, MAX_GAP_H + 1}, extra \in 0..1 }

\* a file of two rows listed last row first: the transaction ids fall down the file
BackwardsInputs == { Reverse(Number(x)) : x \in [1..2 -> FreeTx] }

Inputs ==
  { Number(x) : x \in FreeInputs \cup RingInputs \cup SeparatorInputs \cup HubInputs \cup StarInputs \cup ChainInputs }
  \cup BackwardsInputs

(***************************************************************************)
(* analyzeTransactions, one action per stage                               *)
(***************************************************************************)
\* no scan under way
ScanIdle ==
  /\ scanList = <<>> /\ scanMode = "fan_in" /\ scanLeft = 1 /\ scanRight = 1
  /\ freq = <<>> /\ cpSmallCount = <<>> /\ scanPc = "idle"

\* the Dashboard as mounted: useState({ status: "idle" }), useState(null)
DashIdle ==
  /\ state = [status |-> "idle"] /\ selectedRingId = "null" /\ requests = {} /\ uploads = 0

\* the engine with nothing computed yet
EngineFresh ==
  /\ pc = "build"
  /\ outAdj = <<>> /\ inAdj = <<>> /\ accountStats = <<>> /\ edgeAgg = <<>>
  /\ cycleRings = <<>> /\ smurfRings = <<>> /\ layerRings = <<>> /\ allRings = <<>>
  /\ centrality = <<>> /\ accountFlags = <<>> /\ smurfRolesByAccount = <<>> /\ accountScores = <<>>
  /\ suspicious_accounts = <<>> /\ fraud_rings = <<>> /\ nodes = <<>>
  /\ ringIds = <<<<>>, <<>>>>

\* nothing computed yet, nothing scanned, nothing uploaded
Fresh == EngineFresh /\ ScanIdle /\ DashIdle

Init == rows \in Inputs /\ Fresh

Build ==
  /\ pc = "build"
  /\ LET g == BuildGraph(rows)
     IN  /\ outAdj' = g.out
         /\ inAdj' = g.in
         /\ accountStats' = g.stats
         /\ edgeAgg' = g.edges
  /\ pc' = "cycles"
  /\ UNCHANGED <<scanVars, dashVars>>
  /\ UNCHANGED <<ringIds, rows, cycleRings, smurfRings, layerRings, allRings, centrality, accountFlags, smurfRolesByAccount,
                 accountScores, suspicious_accounts, fraud_rings, nodes>>

DetectCycles ==
  /\ pc = "cycles"
  /\ cycleRings' = detectCycles(outAdj)
  /\ pc' = "smurfing"
  /\ UNCHANGED <<scanVars, dashVars>>
  /\ UNCHANGED <<ringIds, rows, outAdj, inAdj, accountStats, edgeAgg, smurfRings, layerRings, allRings,
                 centrality, accountFlags, smurfRolesByAccount, accountScores, suspicious_accounts, fraud_rings, nodes>>

DetectSmurfing ==
  /\ pc = "smurfing"
  /\ smurfRings' = detectSmurfing(outAdj, inAdj)
  /\ pc' = "layering"
  /\ UNCHANGED <<scanVars, dashVars>>
  /\ UNCHANGED <<ringIds, rows, outAdj, inAdj, accountStats, edgeAgg, cycleRings, layerRings, allRings,
                 centrality, accountFlags, smurfRolesByAccount, accountScores, suspicious_accounts, fraud_rings, nodes>>

DetectLayering ==
  /\ pc = "layering"
  /\ layerRings' = detectLayering(outAdj, accountStats)
  /\ pc' = "dedupe"
  /\ UNCHANGED <<scanVars, dashVars>>
  /\ UNCHANGED <<ringIds, rows, outAdj, inAdj, accountStats, edgeAgg, cycleRings, smurfRings, allRings,
                 centrality, accountFlags, smurfRolesByAccount, accountScores, suspicious_accounts, fraud_rings, nodes>>

Dedupe ==
  /\ pc = "dedupe"
  /\ allRings' = dedupeRings(cycleRings \o smurfRings \o layerRings)
  /\ pc' = "centrality"
  /\ UNCHANGED <<scanVars, dashVars>>
  /\ UNCHANGED <<ringIds, rows, outAdj, inAdj, accountStats, edgeAgg, cycleRings, smurfRings, layerRings,
                 centrality, accountFlags, smurfRolesByAccount, accountScores, suspicious_accounts, fraud_rings, nodes>>

Centrality ==
  /\ pc = "centrality"
  /\ centrality' = computeBetweennessCentrality(outAdj, Len(accountStats))
  /\ pc' = "score"
  /\ UNCHANGED <<scanVars, dashVars>>
  /\ UNCHANGED <<ringIds, rows, outAdj, inAdj, accountStats, edgeAgg, cycleRings, smurfRings, layerRings,
                 allRings, accountFlags, smurfRolesByAccount, accountScores, suspicious_accounts, fraud_rings, nodes>>

\* flags, scores and the returned report; allRings.sort reorders allRings in place
Score ==
  /\ pc = "score"
  /\ LET flags == AccountFlags(accountStats, allRings)
         roles == SmurfRolesByAccount(allRings)
         scores == AccountScores(flags, roles, centrality, accountStats)
     IN  /\ accountFlags' = flags
         /\ smurfRolesByAccount' = roles
         /\ accountScores' = scores
         /\ suspicious_accounts' = SuspiciousAccounts(scores, flags)
         /\ fraud_rings' = FraudRings(allRings)
         /\ allRings' = FraudRings(allRings)
         /\ nodes' = GraphNodeList(accountStats, scores, centrality, flags)
  /\ pc' = "done"
  /\ UNCHANGED <<scanVars, dashVars>>
  /\ UNCHANGED <<ringIds, rows, outAdj, inAdj, accountStats, edgeAgg, cycleRings, smurfRings, layerRings,
                 centrality>>

Next == Build \/ DetectCycles \/ DetectSmurfing \/ DetectLayering \/ Dedupe \/ Centrality \/ Score

Spec == Init /\ [][Next]_vars

(***************************************************************************)
(* analyzeTransactions of src/src/lib/analyze.ts, one action per stage     *)
(***************************************************************************)
InputsV1 == { Number(x) : x \in FreeInputs \cup StarInputs \cup ChainInputs } \cup BackwardsInputs

InitV1 == rows \in InputsV1 /\ Fresh

\* ringId(prefix): the prefix, a draw of Math.random() and a reading of Date.now()
RandomDraws == 0..1

Clock == 0..1

ringId(prefix, random, now) == <<prefix, random, now>>

\* the ids that n calls of ringId(prefix) can return
RingIdLists(prefix, n) == [1..n -> { ringId(prefix, r, t) : r \in RandomDraws, t \in Clock }]

\* ringIds after a detector has emitted n rings in each of the two runs of the engine
Emitted(prefix, n) ==
  \E first \in RingIdLists(prefix, n), second \in RingIdLists(prefix, n) :
    ringIds' = <<ringIds[1] \o first, ringIds[2] \o second>>

DetectCyclesV1 ==
  /\ pc = "cycles"
  /\ cycleRings' = detectCycles(outAdj)
  /\ Emitted("cycle", Len(detectCycles(outAdj)))
  /\ pc' = "smurfing"
  /\ UNCHANGED <<scanVars, dashVars>>
  /\ UNCHANGED <<rows, outAdj, inAdj, accountStats, edgeAgg, smurfRings, layerRings, allRings,
                 centrality, accountFlags, smurfRolesByAccount, accountScores, suspicious_accounts, fraud_rings, nodes>>

DetectSmurfingV1 ==
  /\ pc = "smurfing"
  /\ smurfRings' = detectSmurfingV1(outAdj, inAdj)
  /\ Emitted("smurf", Len(detectSmurfingV1(outAdj, inAdj)))
  /\ pc' = "layering"
  /\ UNCHANGED <<scanVars, dashVars>>
  /\ UNCHANGED <<rows, outAdj, inAdj, accountStats, edgeAgg, cycleRings, layerRings, allRings,
                 centrality, accountFlags, smurfRolesByAccount, accountScores, suspicious_accounts, fraud_rings, nodes>>

DetectLayeringV1 ==
  /\ pc = "layering"
  /\ layerRings' = detectLayeringV1(outAdj, accountStats)
  /\ Emitted("layer", Len(detectLayeringV1(outAdj, accountStats)))
  /\ pc' = "dedupe"
  /\ UNCHANGED <<scanVars, dashVars>>
  /\ UNCHANGED <<rows, outAdj, inAdj, accountStats, edgeAgg, cycleRings, smurfRings, allRings,
                 centrality, accountFlags, smurfRolesByAccount, accountScores, suspicious_accounts, fraud_rings, nodes>>

DedupeV1 ==
  /\ pc = "dedupe"
  /\ allRings' = dedupeRings(cycleRings \o smurfRings \o layerRings)
  /\ pc' = "score"
  /\ UNCHANGED <<scanVars, dashVars>>
  /\ UNCHANGED <<ringIds, rows, outAdj, inAdj, accountStats, edgeAgg, cycleRings, smurfRings, layerRings,
                 centrality, accountFlags, smurfRolesByAccount, accountScores, suspicious_accounts, fraud_rings, nodes>>

\* flags, scores and the returned report; there are no roles and no centrality
ScoreV1 ==
  /\ pc = "score"
  /\ LET flags == AccountFlags(accountStats, allRings)
         scores == AccountScoresV1(flags)
     IN  /\ accountFlags' = flags
         /\ accountScores' = scores
         /\ suspicious_accounts' = SuspiciousAccounts(scores, flags)
         /\ fraud_rings' = FraudRings(allRings)
         /\ allRings' = FraudRings(allRings)
         /\ nodes' = GraphNodeListV1(accountStats, scores, flags)
  /\ pc' = "done"
  /\ UNCHANGED <<scanVars, dashVars>>
  /\ UNCHANGED <<ringIds, rows, outAdj, inAdj, accountStats, edgeAgg, cycleRings, smurfRings, layerRings,
                 centrality, smurfRolesByAccount>>

NextV1 == Build \/ DetectCyclesV1 \/ DetectSmurfingV1 \/ DetectLayeringV1 \/ DedupeV1 \/ ScoreV1

SpecV1 == InitV1 /\ [][NextV1]_vars

(***************************************************************************)
(* detect of src/src/lib/analyze.ts, statement by statement.  The code's   *)
(* left and right count from 0; scanLeft and scanRight count from 1.       *)
(***************************************************************************)
\* Map.delete
Delete(m, k) == SelectSeq(m, LAMBDA e : e.k # k)

\* one less of k, the entry kept at zero
DecrementKeepZero(m, k) == Put(m, k, GetOr(m, k, 0) - 1)

\* `const n = (m.get(k) ?? 0) - 1; if (n <= 0) m.delete(k); else m.set(k, n);`
Decrement(m, k) == IF GetOr(m, k, 0) - 1 <= 0 THEN Delete(m, k) ELSE Put(m, k, GetOr(m, k, 0) - 1)

\* the calls `detect(account, list, mode)` that detectSmurfing makes for a transaction list
ScanCalls(rs) ==
  LET g == BuildGraph(rs)
  IN  { [list |-> g.out[i].v, mode |-> "fan_out"] : i \in { j \in 1..Len(g.out) : Len(g.out[j].v) >= THRESH } }
      \cup { [list |-> g.in[i].v, mode |-> "fan_in"] : i \in { j \in 1..Len(g.in) : Len(g.in[j].v) >= THRESH } }

engineVars == <<rows, pc, outAdj, inAdj, accountStats, edgeAgg, cycleRings, smurfRings, layerRings, allRings,
                centrality, accountFlags, smurfRolesByAccount, accountScores, suspicious_accounts, fraud_rings,
                nodes, ringIds>>

\* a call of detect on one of the lists of a star input, at `let left = 0` with empty maps
InitScan ==
  /\ rows \in { Number(x) : x \in StarInputs }
  /\ EngineFresh /\ DashIdle
  /\ \E call \in ScanCalls(rows) : scanList = call.list /\ scanMode = call.mode
  /\ scanLeft = 1 /\ scanRight = 1
  /\ freq = <<>> /\ cpSmallCount = <<>>
  /\ scanPc = "add"

\* the head of the loop body: the entry at `right` is counted
ScanAdd ==
  /\ scanPc = "add"
  /\ LET tx == scanList[scanRight]
     IN  /\ freq' = Put(freq, tx.to, GetOr(freq, tx.to, 0) + 1)
         /\ cpSmallCount' = IF tx.amount <= SMALL_TX_THRESHOLD
                              THEN Put(cpSmallCount, tx.to, GetOr(cpSmallCount, tx.to, 0) + 1)
                            ELSE cpSmallCount
  /\ scanPc' = "while"
  /\ UNCHANGED <<scanList, scanMode, scanLeft, scanRight, engineVars, dashVars>>

WindowTooLong == scanList[scanRight].ts - scanList[scanLeft].ts > WINDOW_H

\* one turn of `while (list[right].ts - list[left].ts > WINDOW_MS)`
ScanContract ==
  /\ scanPc = "while"
  /\ WindowTooLong
  /\ LET old == scanList[scanLeft]
     IN  /\ freq' = Decrement(freq, old.to)
         /\ cpSmallCount' = IF old.amount <= SMALL_TX_THRESHOLD
                              THEN Decrement(cpSmallCount, old.to)
                            ELSE cpSmallCount
  /\ scanLeft' = scanLeft + 1
  /\ UNCHANGED <<scanList, scanMode, scanRight, scanPc, engineVars, dashVars>>

\* `freq.size >= THRESH` and, for fan-in, the share of counterparties with a small transfer
ScanQualifies ==
  LET smallCps == Cardinality({ i \in 1..Len(freq) : GetOr(cpSmallCount, freq[i].k, 0) > 0 })
  IN  /\ Len(freq) >= THRESH
      /\ scanMode = "fan_in" => ~(100 * smallCps < SMALL_TX_RATIO * Len(freq))

\* the ring is pushed and detect returns
ScanEmit ==
  /\ scanPc = "while"
  /\ ~WindowTooLong
  /\ ScanQualifies
  /\ scanPc' = "emitted"
  /\ UNCHANGED <<scanList, scanMode, scanLeft, scanRight, freq, cpSmallCount, engineVars, dashVars>>

\* no ring for this `right`: right++
ScanContinue ==
  /\ scanPc = "while"
  /\ ~WindowTooLong
  /\ ~ScanQualifies
  /\ scanRight < Len(scanList)
  /\ scanRight' = scanRight + 1
  /\ scanPc' = "add"
  /\ UNCHANGED <<scanList, scanMode, scanLeft, freq, cpSmallCount, engineVars, dashVars>>

\* no ring for the last `right`: the loop ends and detect returns
ScanExhaust ==
  /\ scanPc = "while"
  /\ ~WindowTooLong
  /\ ~ScanQualifies
  /\ scanRight = Len(scanList)
  /\ scanPc' = "exhausted"
  /\ UNCHANGED <<scanList, scanMode, scanLeft, scanRight, freq, cpSmallCount, engineVars, dashVars>>

NextScan == ScanAdd \/ ScanContract \/ ScanEmit \/ ScanContinue \/ ScanExhaust

SpecScan == InitScan /\ [][NextScan]_vars

\* detect is straight-line code on one thread: a statement that can run does run
SpecScanFair == SpecScan /\ WF_vars(NextScan)

(***************************************************************************)
(* The Dashboard (src/unnamed/part_004) and the analysis route it calls    *)
(* (src/unnamed/part_003).  An upload is known by its number; a file       *)
(* either holds valid transactions or none.  A request is in `requests`    *)
(* from the fetch until handleFile resumes with its response.  The upload  *)
(* field of `state` is not in the code: it records whose result is shown.  *)
(***************************************************************************)
\* most uploads in one run
MaxUploads == 3

FileKinds == {"transactions", "no transactions"}

\* the only ring of a report, for the row that the user can click
ShownRings == {"ring"}

\* handleFile up to its first await: the selection is cleared, the state is loading, the
\* request is sent
HandleFile ==
  /\ uploads < MaxUploads
  /\ \E kind \in FileKinds :
       requests' = requests \cup { [upload |-> uploads + 1, file |-> kind, stage |-> "sent", ok |-> FALSE] }
  /\ uploads' = uploads + 1
  /\ selectedRingId' = "null"
  /\ state' = [status |-> "loading"]
  /\ UNCHANGED <<engineVars, scanVars>>

\* POST: 400 when no valid transaction was parsed, else the analysis with status 200
Post ==
  /\ \E req \in { r \in requests : r.stage = "sent" } :
       requests' = (requests \ {req})
                     \cup { [req EXCEPT !.stage = "response", !.ok = (req.file = "transactions")] }
  /\ UNCHANGED <<state, selectedRingId, uploads, engineVars, scanVars>>

\* handleFile after `await fetch` and `await res.json()`: the state is set from the response
Resume ==
  /\ \E req \in { r \in requests : r.stage = "response" } :
       /\ requests' = requests \ {req}
       /\ state' = IF req.ok THEN [status |-> "ready", data |-> req.file, upload |-> req.upload]
                   ELSE [status |-> "error", message |-> "No valid transactions parsed", upload |-> req.upload]
  /\ UNCHANGED <<selectedRingId, uploads, engineVars, scanVars>>

\* fetch rejects: the catch branch
FetchFails ==
  /\ \E req \in { r \in requests : r.stage = "sent" } :
       /\ requests' = requests \ {req}
       /\ state' = [status |-> "error", message |-> "Failed to fetch", upload |-> req.upload]
  /\ UNCHANGED <<selectedRingId, uploads, engineVars, scanVars>>

\* a click on a ring's row: setSelectedRingId((prev) => (prev === r.id ? null : r.id))
SelectRing ==
  /\ state.status = "ready"
  /\ \E r \in ShownRings : selectedRingId' = IF selectedRingId = r THEN "null" ELSE r
  /\ UNCHANGED <<state, requests, uploads, engineVars, scanVars>>

InitDash == rows = <<>> /\ EngineFresh /\ ScanIdle /\ DashIdle

NextDash == HandleFile \/ Post \/ Resume \/ FetchFails \/ SelectRing

SpecDash == InitDash /\ [][NextDash]_vars

\* the server answers every request and the browser runs every continuation that is due
SpecDashFair == SpecDash /\ WF_vars(Post) /\ WF_vars(Resume)

(***************************************************************************)
(* What the properties read from the input, apart from the engine          *)
(***************************************************************************)
\* the accounts of the input
Accounts == { rows[i].sender_id : i \in 1..Len(rows) } \cup { rows[i].receiver_id : i \in 1..Len(rows) }

\* the rows that move money from a to b
RowsOn(a, b) == { i \in 1..Len(rows) : rows[i].sender_id = a /\ rows[i].receiver_id = b }

\* the row that carries the transaction id
RowOf(txId) == rows[CHOOSE i \in 1..Len(rows) : rows[i].transaction_id = txId]

\* b is a read around from its (k+1)-th entry, for some k
IsRotation(a, b) ==
  /\ Len(a) = Len(b)
  /\ \E k \in 0..(Len(a) - 1) : \A i \in 1..Len(a) : b[i] = a[((i - 1 + k) % Len(a)) + 1]

\* the simple directed paths of k accounts in the transaction graph
RECURSIVE SimplePaths(_)
SimplePaths(k) ==
  IF k = 1 THEN { <<a>> : a \in Accounts }
  ELSE { q \in { Append(p, b) : p \in SimplePaths(k - 1), b \in Accounts } :
           /\ RowsOn(q[k - 1], q[k]) # {}
           /\ \A i \in 1..(k - 1) : q[i] # q[k] }

\* the simple directed cycles of 3 to 5 accounts, one sequence per member to start from
SimpleCycles == { p \in SimplePaths(3) \cup SimplePaths(4) \cup SimplePaths(5) : RowsOn(p[Len(p)], p[1]) # {} }

\* from edge i on, one transaction per edge can be picked no earlier than t and never going back
\* in time: the earliest that fits is as good a pick as any
RECURSIVE ChronoFrom(_, _, _)
ChronoFrom(c, i, t) ==
  IF i > Len(c) THEN TRUE
  ELSE LET ts == { rows[k].timestamp : k \in { j \in RowsOn(c[i], c[(i % Len(c)) + 1]) : rows[j].timestamp >= t } }
       IN  /\ ts # {}
           /\ ChronoFrom(c, i + 1, CHOOSE m \in ts : \A x \in ts : m <= x)

Chronological(c) == ChronoFrom(c, 1, 0)

\* the cycle detector has returned
CyclesFound == pc = "smurfing"

(***************************************************************************)
(* Properties of the cycle detector                                        *)
(***************************************************************************)
\* C1: in every circular_routing ring the cycle detector returns, the timestamps of the
\* transactions of evidence.transaction_ids, read in order, never decrease.
C1_CyclesChronological ==
  CyclesFound =>
    \A n \in 1..Len(cycleRings) :
      LET txs == cycleRings[n].transaction_ids
      IN  \A i \in 1..(Len(txs) - 1) : RowOf(txs[i]).timestamp <= RowOf(txs[i + 1]).timestamp

\* C2: every simple directed cycle of 3 to 5 accounts whose edges admit one transaction each
\* with non-decreasing timestamps, read around from some member, has a circular_routing ring
\* among those detectCycles returns whose members are a rotation of the cycle.
C2_CycleCompleteness ==
  CyclesFound =>
    \A c \in SimpleCycles :
      Chronological(c) =>
        \E n \in 1..Len(cycleRings) :
          cycleRings[n].pattern_type = "circular_routing" /\ IsRotation(cycleRings[n].members, c)

\* the account ids of the input hold neither "->" nor "|"
PlainIds == \A a \in Accounts : \A i \in 1..Len(a) : a[i] # ARROW /\ a[i] # BAR

\* C2 on inputs whose account ids hold no separator: there every simple cycle of 3 to 5
\* accounts, chronological or not, has its ring.
CycleCompletenessPlainIds ==
  (CyclesFound /\ PlainIds) =>
    \A c \in SimpleCycles : \E n \in 1..Len(cycleRings) : IsRotation(cycleRings[n].members, c)

\* C3: every circular_routing ring has pairwise distinct members, 3 <= L <= 5 of them with
\* member_count = hops = L, L transaction ids of which the i-th is a transaction from
\* member i to the next member round the ring, and risk_score = 70 + 5 * L; so a
\* self-loop or a 2-cycle yields no ring.
WellFormedCycleRing(r) ==
  LET L == Len(r.members)
  IN  /\ \A i, j \in 1..L : i # j => r.members[i] # r.members[j]
      /\ L >= 3 /\ L <= 5
      /\ r.member_count = L
      /\ r.hops = L
      /\ Len(r.transaction_ids) = L
      /\ \A i \in 1..L :
           \E k \in RowsOn(r.members[i], r.members[(i % L) + 1]) : rows[k].transaction_id = r.transaction_ids[i]
      /\ r.risk_score = 70 + 5 * L

Closed(members) == Append(members, members[1])

DetectorRings == cycleRings \o smurfRings \o layerRings

\* one member set: the sorted member lists are the same list of ids
SameMembers(r, q) == SortIds(r.members) = SortIds(q.members)

\* the rings have been deduplicated
Deduped == pc \in {"centrality", "score", "done"}

\* C5: in the final report no two rings of fraud_rings have the same set of members,
\* compared as sorted member lists.
C5_NoDuplicateMemberSets ==
  pc = "done" =>
    \A i, j \in 1..Len(fraud_rings) :
      i # j => ~SameMembers(fraud_rings[i], fraud_rings[j])

\* the detectors returned two rings over one member set, their members in different orders
C5_Witness ==
  /\ pc = "done"
  /\ \E i, j \in 1..Len(DetectorRings) :
       /\ i # j
       /\ SameMembers(DetectorRings[i], DetectorRings[j])
       /\ DetectorRings[i].members # DetectorRings[j].members

\* r is no worse than q: a higher pattern priority, or the same priority and no lower risk
NoWorse(r, q) ==
  LET prio(p) == IF p = "circular_routing" THEN 4
                 ELSE IF p \in {"smurfing", "dispersal"} THEN 3
                 ELSE IF p = "layered_shell" THEN 2 ELSE 1
  IN  \/ prio(r.pattern_type) > prio(q.pattern_type)
      \/ prio(r.pattern_type) = prio(q.pattern_type) /\ r.risk_score >= q.risk_score

\* C6: of every group of detector rings that share one member set dedupeRings keeps exactly
\* one ring, a ring of the group of the highest pattern priority and, among those, of the
\* highest risk_score.
C6_DedupeKeepsBest ==
  Deduped =>
    \A g \in 1..Len(DetectorRings) :
      LET kept == { n \in 1..Len(allRings) : SameMembers(allRings[n], DetectorRings[g]) }
      IN  /\ Cardinality(kept) = 1
          /\ \A n \in kept :
               /\ \E i \in 1..Len(DetectorRings) : DetectorRings[i] = allRings[n]
               /\ \A i \in 1..Len(DetectorRings) :
                    SameMembers(DetectorRings[i], DetectorRings[g]) => NoWorse(allRings[n], DetectorRings[i])

\* C6 on inputs whose account ids hold no separator
DedupeKeepsBestPlainIds == PlainIds => C6_DedupeKeepsBest

(***************************************************************************)
(* Properties of the scores                                                *)
(***************************************************************************)
NodeOf(a) == nodes[CHOOSE i \in 1..Len(nodes) : nodes[i].id = a]

Suspicious(a) == \E i \in 1..Len(suspicious_accounts) : suspicious_accounts[i].account_id = a

\* C7: every account has an integer suspicion score from 0 to 100, and is listed in
\* suspicious_accounts, once and with the score of its graph node, exactly if that score
\* is greater than 0.
C7_ScoreRange ==
  pc = "done" =>
    /\ \A a \in Accounts :
         /\ Cardinality({ i \in 1..Len(nodes) : nodes[i].id = a }) = 1
         /\ NodeOf(a).score \in 0..100
         /\ Suspicious(a) <=> NodeOf(a).score > 0
    /\ \A i \in 1..Len(suspicious_accounts) :
         /\ suspicious_accounts[i].account_id \in Accounts
         /\ suspicious_accounts[i].suspicion_score = NodeOf(suspicious_accounts[i].account_id).score
         /\ \A j \in 1..Len(suspicious_accounts) :
              suspicious_accounts[j].account_id = suspicious_accounts[i].account_id => i = j

\* an account in a cycle that is also the hub of a smurfing ring sits at the top of the
\* range, beside an account with score 0
C7_Witness ==
  /\ pc = "done"
  /\ \E a, b \in Accounts :
       /\ NodeOf(a).score = 100 /\ NodeOf(a).flags.cycle /\ NodeOf(a).flags.smurfing
       /\ NodeOf(b).score = 0 /\ ~Suspicious(b)

InSomeRing(a) == \E n \in 1..Len(fraud_rings) : Includes(fraud_rings[n].members, a)

\* C8: an account that is a member of no ring of the final report has suspicion score 0
\* and is not listed in suspicious_accounts, whatever its betweenness centrality.
C8_NoRingNoScore ==
  pc = "done" =>
    \A a \in Accounts : ~InSomeRing(a) => NodeOf(a).score = 0 /\ ~Suspicious(a)

SmurfingRings == SelectSeq(fraud_rings, LAMBDA r : r.pattern_type = "smurfing")

\* the account whose incoming list produced the ring's window: the receiver of the
\* window's first transaction, which heads the evidence
WindowReceiver(r) == RowOf(r.transaction_ids[1]).receiver_id

RolesOf(a) == GetOr(smurfRolesByAccount, a, {})

Degree(a) ==
  Cardinality({ i \in 1..Len(rows) : rows[i].sender_id = a })
  + Cardinality({ i \in 1..Len(rows) : rows[i].receiver_id = a })

\* round(c * k) for a rational c >= 0, halves up, capped
CappedRound(c, k, cap) ==
  LET r == (2 * k * c.n + c.d) \div (2 * c.d) IN IF r > cap THEN cap ELSE r

CentralityPoints(a) ==
  IF Degree(a) <= 6 THEN CappedRound(NodeOf(a).centrality, 20, 20)
  ELSE CappedRound(NodeOf(a).centrality, 10, 10)

IsAggregator(a) == \E n \in 1..Len(SmurfingRings) : WindowReceiver(SmurfingRings[n]) = a

ListedSender(a) == \E n \in 1..Len(fraud_rings) : Includes(fraud_rings[n].senders, a)

ListedReceiver(a, patterns) ==
  \E n \in 1..Len(fraud_rings) :
    fraud_rings[n].pattern_type \in patterns /\ Includes(fraud_rings[n].receivers, a)

\* the first that applies; the receiver bonus counts the rings of the given patterns
RolePoints(a, patterns) ==
  IF IsAggregator(a) THEN 50
  ELSE IF ListedSender(a) THEN 25
  ELSE IF ListedReceiver(a, patterns) THEN 10
  ELSE IF NodeOf(a).flags.smurfing THEN 25
  ELSE 0

ScoreBy(a, patterns) ==
  LET sum == (IF NodeOf(a).flags.cycle THEN 45 ELSE 0) + (IF NodeOf(a).flags.layering THEN 40 ELSE 0)
             + RolePoints(a, patterns) + CentralityPoints(a)
  IN  IF sum < 0 THEN 0 ELSE IF sum > 100 THEN 100 ELSE sum

MemberOfPattern(a, patterns) ==
  \E n \in 1..Len(fraud_rings) :
    /\ fraud_rings[n].pattern_type \in patterns
    /\ \E i \in 1..Len(fraud_rings[n].members) : fraud_rings[n].members[i] = a

\* the flags are those that ring membership gives
FlagsByMembership(f, a) ==
  /\ f.cycle <=> MemberOfPattern(a, {"circular_routing"})
  /\ f.smurfing <=> MemberOfPattern(a, {"smurfing", "dispersal"})
  /\ f.layering <=> MemberOfPattern(a, {"layered_shell"})

SmurfingDone == pc = "layering"

\* the rows of the ring's evidence that pay the account
EvidenceInto(r, a) ==
  { i \in 1..Len(rows) : rows[i].receiver_id = a /\ Includes(r.transaction_ids, rows[i].transaction_id) }

\* the rows of the ring's evidence that the account pays
EvidenceFrom(r, a) ==
  { i \in 1..Len(rows) : rows[i].sender_id = a /\ Includes(r.transaction_ids, rows[i].transaction_id) }

\* the distinct senders of the fan-in window the ring's evidence records
WindowSenders(r) == { rows[i].sender_id : i \in EvidenceInto(r, WindowReceiver(r)) }

\* those of them with a small transfer in the window
SmallSenders(r) ==
  { rows[i].sender_id : i \in { j \in EvidenceInto(r, WindowReceiver(r)) : rows[j].amount <= SMALL_TX_THRESHOLD } }

FanInWindowOk(r) ==
  /\ Cardinality(WindowSenders(r)) >= 10
  /\ r.end_timestamp - r.start_timestamp <= 72
  /\ 10 * Cardinality(SmallSenders(r)) >= 7 * Cardinality(WindowSenders(r))

\* C12: every smurfing (fan-in) ring comes from a window of the receiver's incoming list with
\* at least 10 distinct senders, spanning at most 72h, in which at least 70% of the distinct
\* senders have a transfer of amount <= 1000.
C12_FanInWindow ==
  SmurfingDone => \A n \in 1..Len(smurfRings) : smurfRings[n].pattern_type = "smurfing" => FanInWindowOk(smurfRings[n])

\* the account whose list the ring's window was cut from: the sender of the window's
\* transactions for a dispersal ring, their receiver for a smurfing ring
ScannedAccount(r) ==
  IF r.pattern_type = "dispersal" THEN RowOf(r.transaction_ids[1]).sender_id ELSE WindowReceiver(r)

\* C13: for every account the smurfing detector returns at most one smurfing (fan-in) ring and
\* at most one dispersal (fan-out) ring.
C13_OneRingPerDirection ==
  SmurfingDone =>
    \A n, m \in 1..Len(smurfRings) :
      /\ n # m
      /\ smurfRings[n].pattern_type = smurfRings[m].pattern_type
      => ScannedAccount(smurfRings[n]) # ScannedAccount(smurfRings[m])

\* the account pays at least 10 distinct receivers within one span of 72h
FansOut(a) ==
  \E i \in 1..Len(rows) :
    /\ rows[i].sender_id = a
    /\ Cardinality({ rows[j].receiver_id : j \in { k \in 1..Len(rows) :
                       /\ rows[k].sender_id = a
                       /\ rows[k].timestamp >= rows[i].timestamp
                       /\ rows[k].timestamp <= rows[i].timestamp + 72 } }) >= 10

\* a dispersal ring of the account: the account first, then the distinct receivers of the
\* window its evidence records
DispersalRingOf(r, a) ==
  /\ r.pattern_type = "dispersal"
  /\ r.members[1] = a
  /\ \A i \in 1..Len(r.transaction_ids) : RowOf(r.transaction_ids[i]).sender_id = a
  /\ Range(Tail(r.members)) = { rows[i].receiver_id : i \in EvidenceFrom(r, a) }

\* C14: an account that pays at least 10 distinct receivers within one span of 72h gets a
\* dispersal ring with the account as first member and the distinct receivers of the emitting
\* window as the other members, whatever the amounts.
C14_FanOutComplete ==
  SmurfingDone =>
    \A a \in Accounts : FansOut(a) => \E n \in 1..Len(smurfRings) : DispersalRingOf(smurfRings[n], a)

\* the rows of the window the ring's evidence records: those that pay the scanned account for a
\* smurfing ring, those it pays for a dispersal ring
WindowRows(r) ==
  IF r.pattern_type = "dispersal" THEN EvidenceFrom(r, ScannedAccount(r)) ELSE EvidenceInto(r, ScannedAccount(r))

\* the distinct counterparties of the window
WindowPeers(r) ==
  { IF r.pattern_type = "dispersal" THEN rows[i].receiver_id ELSE rows[i].sender_id : i \in WindowRows(r) }

\* the amounts of the rows at the positions S, summed
AmountOver(S) == SumSeq([i \in 1..Len(rows) |-> IF i \in S THEN rows[i].amount ELSE 0])

\* what the account pays out from hour t to hour t + 6
PaidOnWithin6h(a, t) ==
  AmountOver({ i \in 1..Len(rows) : rows[i].sender_id = a /\ rows[i].timestamp >= t /\ rows[i].timestamp <= t + 6 })

VelocityBonus(r) ==
  IF /\ r.pattern_type = "smurfing"
     /\ AmountOver(WindowRows(r)) > 0
     /\ 10 * PaidOnWithin6h(ScannedAccount(r), r.end_timestamp) >= 9 * AmountOver(WindowRows(r))
    THEN 15
  ELSE 0

\* C15: every smurfing or dispersal ring has risk_score = 60 + min(20, distinct counterparties
\* of its window) + bonus, the bonus being 15 exactly for a fan-in ring with a positive
\* incoming sum of which the receiver pays out at least 90% between end_timestamp and 6h
\* later, and 0 otherwise; so the risk_score lies between 70 and 95.
C15_SmurfRisk ==
  SmurfingDone =>
    \A n \in 1..Len(smurfRings) :
      LET r == smurfRings[n]
      IN  /\ r.risk_score = 60 + Min2(20, Cardinality(WindowPeers(r))) + VelocityBonus(r)
          /\ r.risk_score >= 70
          /\ r.risk_score <= 95

\* in the engine of src/src/lib/analyze.ts: a fan-in ring of 10 senders that earns the bonus
C15_WitnessV1 ==
  /\ SmurfingDone
  /\ \E n \in 1..Len(smurfRings) : smurfRings[n].pattern_type = "smurfing" /\ smurfRings[n].risk_score = 85

\* the ring records the window list[left..right] of the incoming list of its last member
RecordsWindow(r, left, right) ==
  LET receiver == Last(r.members)
      list == GetOr(inAdj, receiver, <<>>)
      window == SubSeq(list, left, right)
  IN  /\ 1 <= left /\ left <= right /\ right <= Len(list)
      /\ r.transaction_ids = [i \in 1..Len(window) |-> window[i].txId]
      /\ \A i \in 1..(Len(window) - 1) : window[i].ts <= window[i + 1].ts
      /\ Range(Front(r.members)) = { window[i].to : i \in 1..Len(window) }
      /\ \A i, j \in 1..(Len(r.members) - 1) : i # j => r.members[i] # r.members[j]
      /\ r.start_timestamp = window[1].ts
      /\ r.end_timestamp = window[Len(window)].ts

\* C16: a smurfing (fan-in) ring records its window: its members are the distinct senders of
\* the window and then the receiver, last; its transaction_ids are the ids of a run
\* list[left..right] of the receiver's incoming list, in timestamp order; start_timestamp and
\* end_timestamp are the timestamps of the first and the last transaction of that run.
C16_FanInRecordsWindow ==
  SmurfingDone =>
    \A n \in 1..Len(smurfRings) :
      smurfRings[n].pattern_type = "smurfing" =>
        \E left, right \in 1..Len(rows) : RecordsWindow(smurfRings[n], left, right)

\* in the engine of src/src/lib/analyze.ts: a fan-in ring whose window starts after the first
\* entry of the list and ends before the last
C16_WitnessV1 ==
  /\ SmurfingDone
  /\ \E n \in 1..Len(smurfRings) :
       /\ smurfRings[n].pattern_type = "smurfing"
       /\ \E left, right \in 1..Len(rows) :
            /\ RecordsWindow(smurfRings[n], left, right)
            /\ left > 1
            /\ right < Len(GetOr(inAdj, Last(smurfRings[n].members), <<>>))

(***************************************************************************)
(* Properties of the rings of the report                                   *)
(***************************************************************************)
\* C17: every ring of the report, of every pattern, has member_count equal to the length of
\* its members, and its members are pairwise distinct; inputs may hold self-loop transactions.
C17_MembersDistinct ==
  pc = "done" =>
    \A n \in 1..Len(fraud_rings) :
      /\ fraud_rings[n].member_count = Len(fraud_rings[n].members)
      /\ \A i, j \in 1..Len(fraud_rings[n].members) :
           i # j => fraud_rings[n].members[i] # fraud_rings[n].members[j]

(***************************************************************************)
(* Properties of the layering detector                                     *)
(***************************************************************************)
\* the input is the chain A -> B -> C -> D -> E of four transfers, each 1h after the one
\* before; B, C and D then have in_count + out_count = 2
IsChainABCDE ==
  /\ Len(rows) = 4
  /\ \E A, B, C, D, E \in Accounts :
       /\ Cardinality({A, B, C, D, E}) = 5
       /\ \E t \in 0..1 :
            { [sender_id |-> rows[i].sender_id, receiver_id |-> rows[i].receiver_id, timestamp |-> rows[i].timestamp] :
                i \in 1..4 }
            = { [sender_id |-> A, receiver_id |-> B, timestamp |-> t],
                [sender_id |-> B, receiver_id |-> C, timestamp |-> t + 1],
                [sender_id |-> C, receiver_id |-> D, timestamp |-> t + 2],
                [sender_id |-> D, receiver_id |-> E, timestamp |-> t + 3] }

\* the chain's accounts from its head on: the account nobody pays, then whom each one pays
RECURSIVE ChainFrom(_, _)
ChainFrom(a, k) ==
  IF k = 0 \/ ~\E i \in 1..Len(rows) : rows[i].sender_id = a THEN <<a>>
  ELSE <<a>> \o ChainFrom(rows[CHOOSE i \in 1..Len(rows) : rows[i].sender_id = a].receiver_id, k - 1)

ChainMembers ==
  ChainFrom(CHOOSE a \in Accounts : \A i \in 1..Len(rows) : rows[i].receiver_id # a, Len(rows))

LayeredRings == SelectSeq(fraud_rings, LAMBDA r : r.pattern_type = "layered_shell")

\* C18: for the chain A -> B -> C -> D -> E of four transfers 1h apart the report holds exactly
\* one layered_shell ring, with members [A, B, C, D, E] and risk_score 80.
C18_ChainOfFive ==
  (pc = "done" /\ IsChainABCDE) =>
    /\ Len(LayeredRings) = 1
    /\ LayeredRings[1].members = ChainMembers
    /\ LayeredRings[1].risk_score = 80

\* the layering detector returns no ring, whatever the input: the search starts with
\* lastTs = -Infinity, so the first edge of every path has an infinite gap and is skipped
LayeringReturnsNothing == layerRings = <<>>

\* C19: every layered_shell ring has at least 4 members and at least 2 interior members, and
\* every interior member has in_count + out_count <= 2 over the full transaction list.
C19_LayerInterior ==
  \A n \in 1..Len(layerRings) :
    LET m == layerRings[n].members
    IN  /\ Len(m) >= 4
        /\ \A i \in 2..(Len(m) - 1) : Degree(m[i]) <= 2

\* C20: the evidence of every layered_shell ring is a chain of hops = member_count - 1
\* transactions, 3 <= hops <= 6, transaction i going from members[i] to members[i+1], with
\* timestamps that never decrease and gaps of at most 72h, and risk_score =
\* 65 + min(25, 5 * number of interior members).
C20_LayerChain ==
  \A n \in 1..Len(layerRings) :
    LET r == layerRings[n]
        hops == Len(r.transaction_ids)
    IN  /\ hops = r.member_count - 1 /\ hops = r.hops /\ hops >= 3 /\ hops <= 6
        /\ \A i \in 1..hops :
             /\ RowOf(r.transaction_ids[i]).sender_id = r.members[i]
             /\ RowOf(r.transaction_ids[i]).receiver_id = r.members[i + 1]
        /\ \A i \in 1..(hops - 1) :
             /\ RowOf(r.transaction_ids[i]).timestamp <= RowOf(r.transaction_ids[i + 1]).timestamp
             /\ RowOf(r.transaction_ids[i + 1]).timestamp - RowOf(r.transaction_ids[i]).timestamp <= 72
        /\ r.risk_score = 65 + Min2(25, 5 * (r.member_count - 2))

(***************************************************************************)
(* Properties of the graph build                                           *)
(***************************************************************************)
\* the graph has been built
Built == pc # "build"

\* the edges of the returned graph: Array.from(edgeAgg.values())
Edges == [i \in 1..Len(edgeAgg) |-> edgeAgg[i].v]

\* the (sender, receiver) pairs that occur
Pairs == { <<rows[i].sender_id, rows[i].receiver_id>> : i \in 1..Len(rows) }

\* no account id holds the "::" of the edge key
NoColonIds == \A a \in Accounts : \A i \in 1..Len(a) : a[i] # COLONS

\* the aggregate built again from the edges, each counted with its own count and amount
Rebuilt(es) ==
  LET key(e) == <<e.source, e.target>>
      firsts == { i \in 1..Len(es) : \A j \in 1..(i - 1) : key(es[j]) # key(es[i]) }
      same(i) == [j \in 1..Len(es) |-> IF key(es[j]) = key(es[i]) THEN es[j] ELSE [es[j] EXCEPT !.amount = 0, !.count = 0]]
  IN  [n \in 1..Cardinality(firsts) |->
         LET i == CHOOSE f \in firsts : Cardinality({ g \in firsts : g < f }) = n - 1
         IN  [source |-> es[i].source, target |-> es[i].target,
              amount |-> SumSeq([j \in 1..Len(es) |-> same(i)[j].amount]),
              count  |-> SumSeq([j \in 1..Len(es) |-> same(i)[j].count])]]

EdgeAggregateOk ==
  /\ Len(Edges) = Cardinality(Pairs)
  /\ \A p \in Pairs :
       \E i \in 1..Len(Edges) :
         /\ Edges[i].source = p[1] /\ Edges[i].target = p[2]
         /\ Edges[i].count = Cardinality(RowsOn(p[1], p[2]))
         /\ Edges[i].amount = AmountOver(RowsOn(p[1], p[2]))
  /\ SumSeq([i \in 1..Len(Edges) |-> Edges[i].count]) = Len(rows)
  /\ SumSeq([i \in 1..Len(Edges) |-> Edges[i].amount]) = AmountOver(1..Len(rows))
  /\ Rebuilt(Edges) = Edges

\* C21: the edge aggregate has exactly one edge per (sender, receiver) pair that occurs, with
\* the number and the summed amount of that pair's transactions; the counts add up to the
\* number of transactions and the amounts to their total; rebuilding the aggregate from the
\* edges gives the same edges.
C21_EdgeAggregate == Built => EdgeAggregateOk

\* the same for inputs with no "::" in an account id
EdgeAggregatePlainIds == (Built /\ NoColonIds) => EdgeAggregateOk

\* a list of adjacency entries ascends by (ts, txId)
AscendingTsThenId(list) ==
  \A i \in 1..(Len(list) - 1) :
    \/ list[i].ts < list[i + 1].ts
    \/ list[i].ts = list[i + 1].ts /\ list[i].txId < list[i + 1].txId

\* an adjacency map holds, for every account on that side, exactly its transactions
HoldsExactly(adj, side, peer) ==
  /\ { adj[n].k : n \in 1..Len(adj) } = { side[i] : i \in 1..Len(rows) }
  /\ \A n \in 1..Len(adj) :
       LET mine == { i \in 1..Len(rows) : side[i] = adj[n].k }
       IN  /\ Len(adj[n].v) = Cardinality(mine)
           /\ \A i \in mine : \E m \in 1..Len(adj[n].v) :
                adj[n].v[m] = AdjTx(rows[i], peer[i])

Senders == [i \in 1..Len(rows) |-> rows[i].sender_id]

Receivers == [i \in 1..Len(rows) |-> rows[i].receiver_id]

AdjListsSorted ==
  /\ \A n \in 1..Len(outAdj) : AscendingTsThenId(outAdj[n].v)
  /\ \A n \in 1..Len(inAdj) : AscendingTsThenId(inAdj[n].v)

AdjListsComplete == HoldsExactly(outAdj, Senders, Receivers) /\ HoldsExactly(inAdj, Receivers, Senders)

\* C22: after the graph build every out_adj and in_adj list ascends by (ts, tx_id), equal
\* timestamps in tx_id order, and holds exactly the transactions of its sender (receiver).
C22_AdjSorted == Built => (AdjListsSorted /\ AdjListsComplete)

\* the part of it that the build keeps: timestamps never decrease along a list, and every
\* list holds exactly the transactions of its account
AdjSortedByTs ==
  Built =>
    /\ \A n \in 1..Len(outAdj) : \A i \in 1..(Len(outAdj[n].v) - 1) : outAdj[n].v[i].ts <= outAdj[n].v[i + 1].ts
    /\ \A n \in 1..Len(inAdj) : \A i \in 1..(Len(inAdj[n].v) - 1) : inAdj[n].v[i].ts <= inAdj[n].v[i + 1].ts
    /\ AdjListsComplete

\* every ring that a detector emitted is in the report
NothingDropped == Len(fraud_rings) = Len(ringIds[1])

\* C23: two runs of the engine on the same list give the same ring ids, and so the same
\* report: a ring's id depends on nothing but the ring.
C23_RingIdsDeterministic == (pc = "done" /\ NothingDropped) => ringIds[1] = ringIds[2]

(***************************************************************************)
(* Two orderings of one transaction list                                   *)
(***************************************************************************)
\* analyzeTransactions of src/src/lib/analyze.ts from the rows to the report, in one piece
AnalyzeV1(rs) ==
  LET g == BuildGraph(rs)
      rings == dedupeRings(detectCycles(g.out) \o detectSmurfingV1(g.out, g.in) \o detectLayeringV1(g.out, g.stats))
      flags == AccountFlags(g.stats, rings)
  IN  [fraud_rings |-> FraudRings(rings), flags |-> flags, scores |-> AccountScoresV1(flags)]

\* the first row moved to the end of the list
Rotate(rs) == IF rs = <<>> THEN rs ELSE Tail(rs) \o <<Head(rs)>>

\* other orderings of the same transactions
Reorderings(rs) == { Reverse(rs), Rotate(rs) }

\* what the claim compares of a ring
RingFacts(r) == <<r.pattern_type, r.members, r.transaction_ids, r.risk_score>>

SameRings(a, b) ==
  /\ Len(a) = Len(b)
  /\ { RingFacts(a[i]) : i \in 1..Len(a) } = { RingFacts(b[i]) : i \in 1..Len(b) }

SameAccounts(a, b) ==
  /\ { a[i].k : i \in 1..Len(a) } = { b[i].k : i \in 1..Len(b) }
  /\ \A i \in 1..Len(a) : a[i].v = Get(b, a[i].k)

\* the report in the state is that of the rows in one piece
DoneV1 == pc = "done" /\ fraud_rings = AnalyzeV1(rows).fraud_rings

\* C24: the same transactions in another order give the same rings (pattern, member list,
\* evidence transaction ids in order, risk score), compared as sorted lists, and the same score
\* and flags for every account.
C24_PermutationInvariant ==
  DoneV1 =>
    \A other \in Reorderings(rows) :
      /\ SameRings(AnalyzeV1(other).fraud_rings, fraud_rings)
      /\ SameAccounts(AnalyzeV1(other).scores, accountScores)
      /\ SameAccounts(AnalyzeV1(other).flags, accountFlags)

(***************************************************************************)
(* Order of the report's lists                                             *)
(***************************************************************************)
ScoreDescending ==
  \A i \in 1..(Len(suspicious_accounts) - 1) :
    suspicious_accounts[i].suspicion_score >= suspicious_accounts[i + 1].suspicion_score

RiskDescending ==
  \A i \in 1..(Len(fraud_rings) - 1) : fraud_rings[i].risk_score >= fraud_rings[i + 1].risk_score

EqualScoresByAccountId ==
  \A i \in 1..(Len(suspicious_accounts) - 1) :
    suspicious_accounts[i].suspicion_score = suspicious_accounts[i + 1].suspicion_score
      => StrLess(suspicious_accounts[i].account_id, suspicious_accounts[i + 1].account_id)

\* C25: suspicious_accounts is sorted by suspicion_score descending with equal scores in
\* ascending account id, and fraud_rings by risk_score descending (the order of equal risk
\* scores by ring id is not part of this formula: the ids of this revision are not modelled).
C25_ReportSorted == pc = "done" => (ScoreDescending /\ EqualScoresByAccountId /\ RiskDescending)

\* the part of it that the sorts establish: scores and risk scores never rise down the lists
ReportSortedByScoreOnly == pc = "done" => (ScoreDescending /\ RiskDescending)

(***************************************************************************)
(* Betweenness read off the input: shortest paths of the simple directed   *)
(* graph of the rows                                                       *)
(***************************************************************************)
\* the accounts that a pays, however often
PaidBy(a) == { b \in Accounts : RowsOn(a, b) # {} }

\* the simple paths that lengthen one of `paths` by one payment
Lengthened(paths) == UNION { { Append(p, w) : w \in PaidBy(Last(p)) \ Range(p) } : p \in paths }

\* `paths` and every simple path that lengthens one of them
RECURSIVE Grown(_)
Grown(paths) == IF paths = {} THEN {} ELSE paths \cup Grown(Lengthened(paths))

\* the shortest paths of the graph that pass through an account on their way
ShortestThrough ==
  LET all == Grown({ <<a>> : a \in Accounts })
      least == { p \in all : \A q \in all : (q[1] = p[1] /\ Last(q) = Last(p)) => Len(q) >= Len(p) }
  IN  { p : p \in { q \in least : Len(q) >= 3 } }

\* the sum of a set of pairs' shares
RECURSIVE SumShares(_, _)
SumShares(pairs, share) ==
  IF pairs = {} THEN RZero
  ELSE LET x == CHOOSE y \in pairs : TRUE IN RAdd(share[x], SumShares(pairs \ {x}, share))

\* the raw betweenness of every account: over the pairs (s, t) of other accounts with t
\* reachable from s, the share of the shortest paths from s to t that pass through it
RawBetweenness ==
  LET sp == ShortestThrough
      pairs == { <<p[1], Last(p)>> : p \in sp }
      between(x) == { p \in sp : p[1] = x[1] /\ Last(p) = x[2] }
  IN  [v \in Accounts |->
         LET mine == { x \in pairs : \E p \in between(x) : \E i \in 2..(Len(p) - 1) : p[i] = v }
             share == [x \in mine |->
                         Rat(Cardinality({ p \in between(x) : \E i \in 2..(Len(p) - 1) : p[i] = v }),
                             Cardinality(between(x)))]
         IN  SumShares(mine, share)]

\* the centralities of the report's nodes are those of raw betweenness values: each value over
\* the largest if that is positive, and 0 throughout if not
NormalisedFrom(raw) ==
  LET values == { raw[a] : a \in Accounts }
      max == CHOOSE m \in values : \A x \in values : ~RLess(m, x)
  IN  IF RLess(RZero, max)
        THEN /\ \A i \in 1..Len(nodes) : nodes[i].centrality = RDiv(raw[nodes[i].id], max)
             /\ \E i \in 1..Len(nodes) : nodes[i].centrality = ROne
      ELSE \A i \in 1..Len(nodes) : nodes[i].centrality = RZero

CentralityInUnitRange ==
  \A i \in 1..Len(nodes) : ~RLess(nodes[i].centrality, RZero) /\ ~RLess(ROne, nodes[i].centrality)

\* the nodes of the report had the same graph come with more accounts than the cap
NodesOverCap ==
  GraphNodeList(accountStats, accountScores, computeBetweennessCentrality(outAdj, MAX_NODES + 1), accountFlags)

\* C26: every node's centrality is in [0,1]; with no more accounts than the cap the values are
\* the raw betweenness of the simple directed graph over its maximum, the largest exactly 1, or
\* all 0 when no raw value is positive; a node count over the cap gives every node 0.
C26_CentralityNormalised ==
  pc = "done" =>
    /\ CentralityInUnitRange
    /\ IF Len(accountStats) <= MAX_NODES
         THEN Len(nodes) > 0 => NormalisedFrom(RawBetweenness)
       ELSE \A i \in 1..Len(nodes) : nodes[i].centrality = RZero
    /\ \A i \in 1..Len(NodesOverCap) : NodesOverCap[i].centrality = RZero

\* some node lies strictly between the least and the largest centrality
C26_Witness ==
  /\ pc = "done"
  /\ \E i \in 1..Len(nodes) : RLess(RZero, nodes[i].centrality) /\ RLess(nodes[i].centrality, ROne)
  /\ \E i \in 1..Len(nodes) : nodes[i].centrality = ROne

(***************************************************************************)
(* The empty transaction list                                              *)
(***************************************************************************)
NothingFound ==
  /\ outAdj = <<>> /\ inAdj = <<>> /\ accountStats = <<>>
  /\ cycleRings = <<>> /\ smurfRings = <<>> /\ layerRings = <<>> /\ allRings = <<>>

EmptyReport == nodes = <<>> /\ edgeAgg = <<>> /\ suspicious_accounts = <<>> /\ fraud_rings = <<>>

\* C27: on the empty transaction list every stage of the engine can run, every detector
\* returns no ring, and the report has no nodes, no edges, no suspicious accounts and no rings.
C27_EmptyInput ==
  rows = <<>> =>
    /\ NothingFound
    /\ EmptyReport
    /\ pc # "done" => ENABLED NextV1

\* the engine has run to its end on the empty list
C27_Witness == rows = <<>> /\ pc = "done" /\ EmptyReport

\* the same for the engine of src/unnamed/part_000
EmptyInputCentrality ==
  rows = <<>> => (NothingFound /\ EmptyReport /\ centrality = <<>> /\ (pc # "done" => ENABLED Next))

(***************************************************************************)
(* The sliding window of detect                                            *)
(***************************************************************************)
\* the while loop has run for the current right
AfterContraction == (scanPc = "while" /\ ~WindowTooLong) \/ scanPc \in {"emitted", "exhausted"}

\* the entries of list[left..right] with the counterparty
InWindowWith(cp) == { i \in scanLeft..scanRight : scanList[i].to = cp }

WindowInvariant ==
  /\ scanLeft <= scanRight
  /\ scanList[scanRight].ts - scanList[scanLeft].ts <= WINDOW_H
  /\ \A i \in 1..Len(freq) : freq[i].v > 0
  /\ \A i \in 1..Len(scanList) :
       LET cp == scanList[i].to
       IN  /\ GetOr(freq, cp, 0) = Cardinality(InWindowWith(cp))
           /\ GetOr(cpSmallCount, cp, 0)
                = Cardinality({ j \in InWindowWith(cp) : scanList[j].amount <= SMALL_TX_THRESHOLD })

ScanEnded == scanPc \in {"emitted", "exhausted"}

\* C28: whenever the window has been contracted for the current right, left <= right, the
\* window spans at most 72 hours, freq holds for each counterparty exactly the number of its
\* entries in list[left..right] and no zero entry, and the small-transfer map exactly the
\* number of those of at most 1000; and every scan ends, with a ring emitted or the list
\* exhausted.
C28_SlidingWindow == [](AfterContraction => WindowInvariant) /\ <>ScanEnded

\* a window that has lost entries at its left and holds a payment above the small threshold
C28_Witness ==
  /\ scanPc = "while" /\ ~WindowTooLong
  /\ scanLeft > 1
  /\ Len(cpSmallCount) < Len(freq)

\* the scan agrees with the engine's detect: a ring is emitted at the first right whose
\* window qualifies, with the keys of freq as counterparties, and none if no window does
ScanAgreesWithDetect ==
  /\ scanPc = "emitted" =>
       /\ Qualifies(scanList, scanRight, scanMode)
       /\ \A r \in 1..(scanRight - 1) : ~Qualifies(scanList, r, scanMode)
       /\ Keys(freq) = FreqKeys(scanList, scanRight)
       /\ scanLeft = LeftOf(scanList, scanRight)
  /\ scanPc = "exhausted" => \A r \in 1..Len(scanList) : ~Qualifies(scanList, r, scanMode)

(***************************************************************************)
(* Account statistics                                                      *)
(***************************************************************************)
StatsConsistent ==
  /\ { accountStats[i].k : i \in 1..Len(accountStats) } = Accounts
  /\ Len(accountStats) = Cardinality(Accounts)
  /\ \A i \in 1..Len(accountStats) :
       LET st == accountStats[i].v
           a == accountStats[i].k
       IN  /\ st.totalCount = st.inCount + st.outCount
           /\ st.inCount = Cardinality({ n \in 1..Len(rows) : rows[n].receiver_id = a })
           /\ st.outCount = Cardinality({ n \in 1..Len(rows) : rows[n].sender_id = a })
  /\ SumSeq([i \in 1..Len(accountStats) |-> accountStats[i].v.inCount]) = Len(rows)
  /\ SumSeq([i \in 1..Len(accountStats) |-> accountStats[i].v.outCount]) = Len(rows)

OneNodePerAccount ==
  /\ { nodes[i].id : i \in 1..Len(nodes) } = Accounts
  /\ Len(nodes) = Cardinality(Accounts)

\* a step of a detector, of the deduplication or of the scoring
AfterBuildStep == pc # "build" /\ pc' # pc

\* C29: once the graph is built every account that occurs has exactly one statistics record,
\* and exactly one node in the returned graph; total_count = in_count + out_count; the
\* in_counts and the out_counts each add up to the number of transactions, a payment of an
\* account to itself counting in both; and the detectors, the deduplication and the scoring
\* leave the statistics and the input rows as they are.
C29_StatsFrame ==
  /\ [](Built => StatsConsistent)
  /\ [](pc = "done" => OneNodePerAccount)
  /\ [][AfterBuildStep => (accountStats' = accountStats /\ rows' = rows)]_vars

\* the engine has finished on a list in which an account pays itself
C29_Witness ==
  /\ pc = "done"
  /\ \E i \in 1..Len(rows) : rows[i].sender_id = rows[i].receiver_id
  /\ \E i \in 1..Len(accountStats) : accountStats[i].v.inCount > 0 /\ accountStats[i].v.outCount > 0

(***************************************************************************)
(* Uploads that overlap                                                    *)
(***************************************************************************)
Settled == state.status \in {"ready", "error"}

\* C30: once no request is in flight the Dashboard shows the result, ready or error, of the
\* most recent upload, whatever the order in which the responses came.
C30_LatestUploadShown == (uploads > 0 /\ requests = {}) => (Settled /\ state.upload = uploads)

\* what the Dashboard does keep: with no request in flight it shows the result of one of the
\* uploads made
SomeUploadShown == (uploads > 0 /\ requests = {}) => (Settled /\ state.upload \in 1..uploads)

\* every loading state is left for ready or error
LoadingEnds == (state.status = "loading") ~> Settled

====
